---- MODULE Spec2Model ----
(***************************************************************************)
(* XTF-8 codec: the UTF-8 scanner (utf8.h), the transcoder xtf8_encode /   *)
(* xtf8_decode (xtf8.c) and the callers that drive them.                   *)
(*                                                                         *)
(* Pointers into a buffer are modelled as 0-based offsets from its start:  *)
(* s, pos and end are offsets into src, and the write cursor d is          *)
(* dst + Len(out), where out holds the bytes stored through d so far.      *)
(* A returned end pointer d is reported as the offset d - dst.             *)
(***************************************************************************)
EXTENDS Integers, Sequences, FiniteSets, TLC

VARIABLES
    src,      \* the caller's input buffer (a sequence of bytes)
    fr,       \* the frame of the engine call in progress (its arguments and locals)
    sized,    \* TRUE once the caller holds the result of a sizing pass
    outlen,   \* the caller's saved sizing result (outlen in l_helper / main)
    data,     \* the Lua script's current string
    hist,     \* the binding calls the Lua script has made
    jf,       \* the frame of the json_escape / json_unescape call in progress
    drv,      \* the driver in progress: its locals and what it has done so far
    fr2,      \* the frame of a second engine call, running at the same time as fr
    sc        \* a scanner on its own: its state, its codepoint and the bytes fed to it

vars == <<src, fr, sized, outlen, data, hist, jf, drv, fr2, sc>>

----------------------------------------------------------------------------
(* Bounds of the model *)

\* longest input buffer drawn from Alphabet
MaxLen == 3

----------------------------------------------------------------------------
(* C integer operators on non-negative values *)

RECURSIVE BitAnd(_, _)
BitAnd(a, b) ==
    IF a = 0 \/ b = 0 THEN 0
    ELSE (a % 2) * (b % 2) + 2 * BitAnd(a \div 2, b \div 2)

RECURSIVE BitOr(_, _)
BitOr(a, b) ==
    IF a = 0 THEN b
    ELSE IF b = 0 THEN a
    ELSE (IF a % 2 = 1 \/ b % 2 = 1 THEN 1 ELSE 0) + 2 * BitOr(a \div 2, b \div 2)

Shr(a, n) == a \div (2 ^ n)

\* a << n on a uint32_t: the bits shifted out of the 32-bit word are lost
Shl32(a, n) == (a % (2 ^ (32 - n))) * (2 ^ n)

----------------------------------------------------------------------------
(* utf8.h: the scanner *)

UTF8_ACCEPT == 0
UTF8_REJECT == 12

utf8d == <<
     0,0,0,0,0,0,0,0,0,0,0,0,0,0,0,0,  0,0,0,0,0,0,0,0,0,0,0,0,0,0,0,0,
     0,0,0,0,0,0,0,0,0,0,0,0,0,0,0,0,  0,0,0,0,0,0,0,0,0,0,0,0,0,0,0,0,
     0,0,0,0,0,0,0,0,0,0,0,0,0,0,0,0,  0,0,0,0,0,0,0,0,0,0,0,0,0,0,0,0,
     0,0,0,0,0,0,0,0,0,0,0,0,0,0,0,0,  0,0,0,0,0,0,0,0,0,0,0,0,0,0,0,0,
     1,1,1,1,1,1,1,1,1,1,1,1,1,1,1,1,  9,9,9,9,9,9,9,9,9,9,9,9,9,9,9,9,
     7,7,7,7,7,7,7,7,7,7,7,7,7,7,7,7,  7,7,7,7,7,7,7,7,7,7,7,7,7,7,7,7,
     8,8,2,2,2,2,2,2,2,2,2,2,2,2,2,2,  2,2,2,2,2,2,2,2,2,2,2,2,2,2,2,2,
    10,3,3,3,3,3,3,3,3,3,3,3,3,4,3,3, 11,6,6,6,5,8,8,8,8,8,8,8,8,8,8,8,

     0,12,24,36,60,96,84,12,12,12,48,72, 12,12,12,12,12,12,12,12,12,12,12,12,
    12, 0,12,12,12,12,12, 0,12, 0,12,12, 12,24,12,12,12,12,12,24,12,24,12,12,
    12,12,12,12,12,12,12,24,12,12,12,12, 12,24,12,12,12,12,12,12,12,24,12,12,
    12,12,12,12,12,12,12,36,12,36,12,12, 12,36,12,12,12,12,12,36,12,36,12,12,
    12,36,12,12,12,12,12,12,12,12,12,12 >>

\* mutant: the lead C0 is given the class of C2, so C0 80 is accepted
Utf8dAt_Overlong(i) == IF i = \hC0 THEN 2 ELSE utf8d[i + 1]

\* mutant: in REJECT an ASCII byte (class 0) leads back to ACCEPT
Utf8dAt_Unstick(i) == IF i = 256 + UTF8_REJECT + 0 THEN UTF8_ACCEPT ELSE utf8d[i + 1]

\* mutant: after a two-byte lead a continuation byte A0..BF leads to 108,
\* which is no row of the transition table
Utf8dAt_NoRow(i) == IF i = 256 + 24 + 7 THEN 108 ELSE utf8d[i + 1]

\* utf8d[i] with C's 0-based index
Utf8dAt(i) == utf8d[i + 1]

\* uint32_t type = utf8d[byte]
ByteClass(byte) == Utf8dAt(byte)

\* the value utf8_decode stores in *codep
Utf8Codep(state, codep, byte) ==
    IF state # UTF8_ACCEPT
    THEN BitOr(BitAnd(byte, \h3F), Shl32(codep, 6))
    ELSE BitAnd(Shr(\hFF, ByteClass(byte)), byte)

\* the value utf8_decode stores in *state and returns
Utf8State(state, byte) == Utf8dAt(256 + state + ByteClass(byte))

utf8_decode(state, codep, byte) ==
    [state |-> Utf8State(state, byte), codep |-> Utf8Codep(state, codep, byte)]

----------------------------------------------------------------------------
(* xtf8.h / xtf8.c: constants *)

XTF8_ERR_REPLACE == 0
XTF8_ERR_ABORT == 1

\* (uintptr_t)-1: the all-ones word, which is no length and no end pointer
XTF8_ABORTED == -1

XTF8_PUA_START == \hEF80
XTF8_PUA_END == \hEFFF

\* U+FFFD, the Unicode Replacement Character
REPLACEMENT == \hFFFD

ENCODE == "encode"
DECODE == "decode"

----------------------------------------------------------------------------
(* xtf8.c: the pieces of the two loops *)

\* mutant: if (error = XTF8_ERR_ABORT), an assignment of a non-zero value
IsAbort_Always(error) == TRUE

\* if (error == XTF8_ERR_ABORT)
IsAbort(error) == error = XTF8_ERR_ABORT

\* mutant: codepoint > XTF8_PUA_START
IsPUA_ExclusiveStart(codepoint) ==
    codepoint > XTF8_PUA_START /\ codepoint <= XTF8_PUA_END

\* mutant: codepoint < XTF8_PUA_END
IsPUA_ExclusiveEnd(codepoint) ==
    codepoint >= XTF8_PUA_START /\ codepoint < XTF8_PUA_END

\* codepoint >= XTF8_PUA_START && codepoint <= XTF8_PUA_END
IsPUA(codepoint) == codepoint >= XTF8_PUA_START /\ codepoint <= XTF8_PUA_END

\* mutant: the second store shifts by 12 like the first
Utf8Seq3_CopyPaste(codepoint) ==
    << BitOr(BitAnd(Shr(codepoint, 12), \h0F), \hE0),
       BitOr(BitAnd(Shr(codepoint, 12), \h3F), \h80),
       BitOr(BitAnd(codepoint, \h3F), \h80) >>

\* the three stores *d++ = ... that write a codepoint as a 3-byte sequence
Utf8Seq3(codepoint) ==
    << BitOr(BitAnd(Shr(codepoint, 12), \h0F), \hE0),
       BitOr(BitAnd(Shr(codepoint, 6), \h3F), \h80),
       BitOr(BitAnd(codepoint, \h3F), \h80) >>

\* mutant: codepoint = *pos, the byte taken as a Latin-1 codepoint
EncodeByte_Latin1(b) == b

\* mutant: map into the lone surrogates U+DC80..U+DCFF (PEP 383)
EncodeByte_Surrogate(b) == BitOr(\hDC80, BitAnd(b, \h7F))

\* codepoint = 0xEF80 | (*pos & 0x7F)
EncodeByte(b) == BitOr(\hEF80, BitAnd(b, \h7F))

\* mutant: v = (codepoint & 0x3F) | 0x80
DecodeCodepoint_Low6(codepoint) == BitOr(BitAnd(codepoint, \h3F), \h80) % 256

\* mutant: v = codepoint & 0x7F
DecodeCodepoint_NoHighBit(codepoint) == BitAnd(codepoint, \h7F) % 256

\* v = (codepoint & 0x7F) | 0x80, stored in a uint8_t
DecodeCodepoint(codepoint) == BitOr(BitAnd(codepoint, \h7F), \h80) % 256

\* mutant: sz += s - pos
CopySize_OffByOne(s, pos) == s - pos

\* sz += 1 + s - pos
CopySize(s, pos) == 1 + s - pos

\* mutant: no rewind, the rejected byte stays inside the pending region
Rewind_Never(s_prev, s) == s

\* mutant: s--; whatever s_prev is
Rewind_Always(s_prev, s) == s - 1

\* if (s_prev != UTF8_ACCEPT) s--;
Rewind(s_prev, s) == IF s_prev # UTF8_ACCEPT THEN s - 1 ELSE s

\* mutant: while (pos < s) *d++ = *pos++;
RECURSIVE CopyLoop_SkipLast(_)
CopyLoop_SkipLast(f) ==
    IF f.pos < f.s
    THEN CopyLoop_SkipLast([f EXCEPT !.out = Append(@, f.src[f.pos + 1]),
                                     !.pos = @ + 1])
    ELSE f

\* while (pos <= s) *d++ = *pos++;   (runs only when d != NULL)
RECURSIVE CopyLoop(_)
CopyLoop(f) ==
    IF f.pos <= f.s
    THEN CopyLoop([f EXCEPT !.out = Append(@, f.src[f.pos + 1]), !.pos = @ + 1])
    ELSE f

\* mutant: sz += 4 for every byte mapped
RECURSIVE MapLoop_Size4(_)
MapLoop_Size4(f) ==
    IF f.pos <= f.s
    THEN LET b == f.src[f.pos + 1]
         IN  MapLoop_Size4([f EXCEPT
                 !.asserts = IF b >= \h80 THEN @ ELSE @ \cup {"nonascii"},
                 !.sz = @ + 4,
                 !.codepoint = IF f.dst THEN EncodeByte(b) ELSE @,
                 !.out = IF f.dst THEN @ \o Utf8Seq3(EncodeByte(b)) ELSE @,
                 !.pos = @ + 1])
    ELSE f

\* mutant: only the byte at s is mapped, the pending bytes before it are skipped
MapLoop_OnlyLast(f) ==
    IF f.pos <= f.s
    THEN LET b == f.src[f.s + 1]
         IN  [f EXCEPT
                 !.asserts = IF b >= \h80 THEN @ ELSE @ \cup {"nonascii"},
                 !.sz = @ + 3,
                 !.codepoint = IF f.dst THEN EncodeByte(b) ELSE @,
                 !.out = IF f.dst THEN @ \o Utf8Seq3(EncodeByte(b)) ELSE @,
                 !.pos = f.s + 1]
    ELSE f

\* while (pos <= s) { assert(*pos >= 0x80); sz += 3; if (d != NULL) {...} pos++; }
RECURSIVE MapLoop(_)
MapLoop(f) ==
    IF f.pos <= f.s
    THEN LET b == f.src[f.pos + 1]
         IN  MapLoop([f EXCEPT
                 !.asserts = IF b >= \h80 THEN @ ELSE @ \cup {"nonascii"},
                 !.sz = @ + 3,
                 !.codepoint = IF f.dst THEN EncodeByte(b) ELSE @,
                 !.out = IF f.dst THEN @ \o Utf8Seq3(EncodeByte(b)) ELSE @,
                 !.pos = @ + 1])
    ELSE f

\* is_utf8(): the scanner run over data from ACCEPT ends in ACCEPT
RECURSIVE ScanState(_, _)
ScanState(state, bytes) ==
    IF bytes = <<>> THEN state
    ELSE ScanState(Utf8State(state, Head(bytes)), Tail(bytes))

is_utf8(bytes) == ScanState(UTF8_ACCEPT, bytes) = UTF8_ACCEPT

----------------------------------------------------------------------------
(* xtf8.c: a call's frame *)

\* no call made yet
Idle ==
    [pc |-> "idle", mode |-> ENCODE, error |-> XTF8_ERR_REPLACE, dst |-> FALSE,
     src |-> <<>>, s |-> 0, pos |-> 0, s_cur |-> UTF8_ACCEPT, s_prev |-> UTF8_ACCEPT,
     codepoint |-> 0, v |-> 0, sz |-> 0, out |-> <<>>, ret |-> 0,
     ev |-> "none", asserts |-> {}, scans |-> <<>>]

\* the declarations and initial assignments of xtf8_encode / xtf8_decode;
\* dst is TRUE for a destination buffer and FALSE for NULL; scans[i] counts the
\* calls utf8_decode(&s_cur, &codepoint, *s) made with s at the i-th input byte
Entry(m, d, bytes, e) ==
    [Idle EXCEPT !.pc = "loop", !.mode = m, !.error = e, !.dst = d, !.src = bytes,
                 !.scans = [i \in 1..Len(bytes) |-> 0]]

\* end - src
EndOf(f) == Len(f.src)

\* s_prev = s_cur; s++;
Advance(f) == [f EXCEPT !.s_prev = f.s_cur, !.s = @ + 1]

----------------------------------------------------------------------------
(* xtf8_encode *)

\* case UTF8_ACCEPT, a collision under XTF8_ERR_ABORT: return (uintptr_t)-1
EncAbort(f) == [f EXCEPT !.ret = XTF8_ABORTED, !.pc = "returned", !.ev = "abort"]

\* mutant: a collision is dropped, nothing is written for it
EncReplace_Drop(f) ==
    [f EXCEPT !.codepoint = REPLACEMENT,
              !.pos = f.s + 1,
              !.ev = "collision"]

\* case UTF8_ACCEPT, a collision under XTF8_ERR_REPLACE
EncReplace(f) ==
    [f EXCEPT !.codepoint = REPLACEMENT,
              !.sz = @ + 3,
              !.out = IF f.dst THEN @ \o Utf8Seq3(REPLACEMENT) ELSE @,
              !.pos = f.s + 1,
              !.ev = "collision"]

\* mutant: pos = s + 1 is left out after a copy
EncCopy_KeepPos(f) ==
    LET g == [f EXCEPT !.sz = @ + CopySize(f.s, f.pos)]
        h == IF f.dst THEN CopyLoop(g) ELSE g
    IN  [h EXCEPT !.ev = "copy"]

\* case UTF8_ACCEPT, any other codepoint: copy the sequence
EncCopy(f) ==
    LET g == [f EXCEPT !.sz = @ + CopySize(f.s, f.pos)]
        h == IF f.dst THEN CopyLoop(g) ELSE g
    IN  [h EXCEPT !.pos = f.s + 1, !.ev = "copy"]

\* mutant: s_cur is not reset, the next iteration starts in REJECT
EncReject_NoReset(f) ==
    LET g == [f EXCEPT !.s = Rewind(f.s_prev, f.s)]
    IN  [MapLoop(g) EXCEPT !.ev = "mapped"]

\* case UTF8_REJECT: map every pending byte into the PUA
EncReject(f) ==
    LET g == [f EXCEPT !.s_cur = UTF8_ACCEPT, !.s = Rewind(f.s_prev, f.s)]
    IN  [MapLoop(g) EXCEPT !.ev = "mapped"]

\* one iteration of while (s < end) in xtf8_encode
xtf8_encode_iter(f) ==
    LET r == utf8_decode(f.s_cur, f.codepoint, f.src[f.s + 1])
        g == [f EXCEPT !.s_cur = r.state, !.codepoint = r.codep,
                       !.scans[f.s + 1] = @ + 1]
    IN  IF r.state = UTF8_ACCEPT
        THEN IF IsPUA(r.codep)
             THEN IF IsAbort(f.error)
                  THEN EncAbort(g)
                  ELSE Advance(EncReplace(g))
             ELSE Advance(EncCopy(g))
        ELSE IF r.state = UTF8_REJECT
        THEN Advance(EncReject(g))
        ELSE Advance([g EXCEPT !.ev = "more"])

\* mutant: the bytes still pending when the loop ends are mapped before the return
xtf8_encode_return_Flush(f) ==
    LET g == [MapLoop([f EXCEPT !.s = EndOf(f) - 1]) EXCEPT !.s = f.s]
    IN  IF g.dst
        THEN [g EXCEPT !.ret = Len(g.out), !.pc = "returned", !.ev = "end"]
        ELSE [g EXCEPT !.ret = g.sz, !.pc = "returned", !.ev = "end"]

\* the code after the loop of xtf8_encode
xtf8_encode_return(f) ==
    IF f.dst
    THEN [f EXCEPT
             !.asserts = @ \cup (IF f.sz = Len(f.out) THEN {} ELSE {"dst+sz==d"})
                           \cup (IF is_utf8(SubSeq(f.out, 1, f.sz)) THEN {}
                                 ELSE {"is_utf8"}),
             !.ret = Len(f.out), !.pc = "returned", !.ev = "end"]
    ELSE [f EXCEPT !.ret = f.sz, !.pc = "returned", !.ev = "end"]

----------------------------------------------------------------------------
(* xtf8_decode *)

\* case UTF8_ACCEPT, a codepoint of the PUA: decode it to one byte
DecDecode(f) ==
    LET b == DecodeCodepoint(f.codepoint)
    IN  [f EXCEPT !.v = b,
                  !.asserts = IF b >= \h80 THEN @ ELSE @ \cup {"v>=0x80"},
                  !.sz = @ + 1,
                  !.out = IF f.dst THEN Append(@, b) ELSE @,
                  !.pos = f.s + 1,
                  !.ev = "decoded"]

\* case UTF8_ACCEPT, any other codepoint: copy the sequence
DecCopy(f) ==
    LET g == [f EXCEPT !.sz = @ + CopySize(f.s, f.pos)]
        h == IF f.dst THEN CopyLoop(g) ELSE g
    IN  [h EXCEPT !.pos = f.s + 1, !.ev = "copy"]

\* case UTF8_REJECT under XTF8_ERR_ABORT: return (uintptr_t)-1
DecAbort(f) == [f EXCEPT !.ret = XTF8_ABORTED, !.pc = "returned", !.ev = "abort"]

\* mutant: one EF BF BD for every pending byte, as xtf8_encode maps them
DecReplace_PerByte(f) ==
    LET s1 == Rewind(f.s_prev, f.s)
        n == s1 + 1 - f.pos
        many == [i \in 1..(3 * n) |-> Utf8Seq3(REPLACEMENT)[((i - 1) % 3) + 1]]
    IN  [f EXCEPT !.s_cur = UTF8_ACCEPT,
                  !.s = s1,
                  !.codepoint = REPLACEMENT,
                  !.sz = @ + 3 * n,
                  !.out = IF f.dst THEN @ \o many ELSE @,
                  !.pos = s1 + 1,
                  !.ev = "replaced"]

\* mutant: no rewind, the byte that was rejected is covered by the replacement
DecReplace_NoRewind(f) ==
    [f EXCEPT !.s_cur = UTF8_ACCEPT,
              !.codepoint = REPLACEMENT,
              !.sz = @ + 3,
              !.out = IF f.dst THEN @ \o Utf8Seq3(REPLACEMENT) ELSE @,
              !.pos = f.s + 1,
              !.ev = "replaced"]

\* case UTF8_REJECT under XTF8_ERR_REPLACE
DecReplace(f) ==
    LET s1 == Rewind(f.s_prev, f.s)
    IN  [f EXCEPT !.s_cur = UTF8_ACCEPT,
                  !.s = s1,
                  !.codepoint = REPLACEMENT,
                  !.sz = @ + 3,
                  !.out = IF f.dst THEN @ \o Utf8Seq3(REPLACEMENT) ELSE @,
                  !.pos = s1 + 1,
                  !.ev = "replaced"]

\* one iteration of while (s < end) in xtf8_decode
xtf8_decode_iter(f) ==
    LET r == utf8_decode(f.s_cur, f.codepoint, f.src[f.s + 1])
        g == [f EXCEPT !.s_cur = r.state, !.codepoint = r.codep,
                       !.scans[f.s + 1] = @ + 1]
    IN  IF r.state = UTF8_ACCEPT
        THEN IF IsPUA(r.codep)
             THEN Advance(DecDecode(g))
             ELSE Advance(DecCopy(g))
        ELSE IF r.state = UTF8_REJECT
        THEN IF IsAbort(f.error)
             THEN DecAbort(g)
             ELSE Advance(DecReplace(g))
        ELSE Advance([g EXCEPT !.ev = "more"])

\* the code after the loop of xtf8_decode
xtf8_decode_return(f) ==
    IF f.dst
    THEN [f EXCEPT
             !.asserts = @ \cup (IF f.sz = Len(f.out) THEN {} ELSE {"dst+sz==d"}),
             !.ret = Len(f.out), !.pc = "returned", !.ev = "end"]
    ELSE [f EXCEPT !.ret = f.sz, !.pc = "returned", !.ev = "end"]

----------------------------------------------------------------------------
(* whole calls *)

\* the next step of a call in its loop
CallStep(f) ==
    IF f.mode = ENCODE
    THEN IF f.s < EndOf(f) THEN xtf8_encode_iter(f) ELSE xtf8_encode_return(f)
    ELSE IF f.s < EndOf(f) THEN xtf8_decode_iter(f) ELSE xtf8_decode_return(f)

RECURSIVE RunCall(_)
RunCall(f) == IF f.pc = "loop" THEN RunCall(CallStep(f)) ELSE f

\* the frame in which xtf8_encode(dst, src, len, error) returns
xtf8_encode(d, bytes, e) == RunCall(Entry(ENCODE, d, bytes, e))

\* the frame in which xtf8_decode(dst, src, len, error) returns
xtf8_decode(d, bytes, e) == RunCall(Entry(DECODE, d, bytes, e))

----------------------------------------------------------------------------
(* xtf8 CLI with -j: json_escape *)

\* mutant: ch < 0x1F
IsControl_Exclusive(ch) == ch < \h1F

\* ch <= 0x1F
IsControl(ch) == ch <= \h1F

\* case '\n': case '\r': case '\t': case '\b': case '\f':
IsShortEscape(ch) == ch \in {\h0A, \h0D, \h09, \h08, \h0C}

\* the letter stored after the backslash for '\n', '\r', '\t', '\b', '\f'
ShortEscape(ch) ==
    CASE ch = \h0A -> \h6E     \* 'n'
      [] ch = \h0D -> \h72     \* 'r'
      [] ch = \h09 -> \h74     \* 't'
      [] ch = \h08 -> \h62     \* 'b'
      [] ch = \h0C -> \h66     \* 'f'

\* (ch < 10) ? ('0' + ch) : ('A' + ch - 10)
HexDigit(ch) == IF ch < 10 THEN \h30 + ch ELSE \h41 + ch - 10

\* mutant: sz += sizeof("\\u00XX") - 1
EscapedSize_Sizeof(ch) ==
    IF IsControl(ch)
    THEN 1 + (IF IsShortEscape(ch) THEN 1 ELSE 7 - 1)
    ELSE (IF ch = \h5C \/ ch = \h22 THEN 1 ELSE 0) + 1

\* what the sizing loop adds to sz for one byte; sizeof("\\u00XX") is 7
EscapedSize(ch) ==
    IF IsControl(ch)
    THEN 1 + (IF IsShortEscape(ch) THEN 1 ELSE 7 - 2)
    ELSE (IF ch = \h5C \/ ch = \h22 THEN 1 ELSE 0) + 1

\* what the writing loop stores through d for one byte
EscapedBytes(ch) ==
    IF IsControl(ch)
    THEN <<\h5C>> \o
         (IF IsShortEscape(ch)
          THEN <<ShortEscape(ch)>>
          ELSE <<\h75, \h30, \h30, \h30 + Shr(ch, 4), HexDigit(BitAnd(ch, \h0F))>>)
    ELSE (IF ch = \h5C \/ ch = \h22 THEN <<\h5C>> ELSE <<>>) \o <<ch>>

\* no JSON call made yet
JIdle ==
    [pc |-> "idle", fn |-> "escape", dst |-> FALSE, src |-> <<>>, s |-> 0, sz |-> 0,
     out |-> <<>>, escape |-> FALSE, codepoint |-> 0, ret |-> 0, ev |-> "none",
     again |-> FALSE, sized |-> FALSE, jlen |-> 0]

\* the initial assignments of json_escape / json_unescape; again marks a call
\* made on the bytes an earlier json_escape call wrote, and sized a call made
\* with a buffer of the jlen bytes a sizing call returned
JEntry(fn, d, bytes, again) ==
    [JIdle EXCEPT !.pc = "loop", !.fn = fn, !.dst = d, !.src = bytes, !.again = again]

\* one iteration of while (s < end) in json_escape: the first loop when
\* d == NULL, the second otherwise
json_escape_iter(f) ==
    LET ch == f.src[f.s + 1]
    IN  IF f.dst
        THEN [f EXCEPT !.s = @ + 1, !.out = @ \o EscapedBytes(ch), !.ev = "escaped"]
        ELSE [f EXCEPT !.s = @ + 1, !.sz = @ + EscapedSize(ch), !.ev = "escaped"]

\* return (uintptr_t)sz;  or  return (uintptr_t)d;
json_escape_return(f) ==
    [f EXCEPT !.ret = IF f.dst THEN Len(f.out) ELSE f.sz, !.pc = "returned", !.ev = "end"]

----------------------------------------------------------------------------
(* xtf8 CLI with -j: json_unescape *)

\* ((uintptr_t)-1)
JSON_ERR_UNESCAPE == -1

\* the byte an escape letter stands for: \\ \" \n \r \t \b \f
IsSimpleEscape(ch) == ch \in {\h5C, \h22, \h6E, \h72, \h74, \h62, \h66}

Unescaped(ch) ==
    CASE ch = \h5C -> \h5C
      [] ch = \h22 -> \h22
      [] ch = \h6E -> \h0A
      [] ch = \h72 -> \h0D
      [] ch = \h74 -> \h09
      [] ch = \h62 -> \h08
      [] ch = \h66 -> \h0C

\* if (s + 5 >= end)
Truncated(s, end) == s + 5 >= end

\* the value x of one digit of \u00XX, or -1 where the code returns the error
XDigit(ch) ==
    IF ch >= \h30 /\ ch <= \h39 THEN ch - \h30
    ELSE IF ch >= \h41 /\ ch <= \h46 THEN ch - \h41 + 10
    ELSE -1

\* for (codepoint = 0, i = 1; i < 5; i++) ... codepoint = (codepoint << 4) | x;
\* -1 when a digit is rejected
RECURSIVE ParseHex(_, _, _, _)
ParseHex(bytes, s, i, codepoint) ==
    IF i < 5
    THEN LET x == XDigit(bytes[s + i + 1])
         IN  IF x < 0 THEN -1
             ELSE ParseHex(bytes, s, i + 1, BitOr(Shl32(codepoint, 4), x))
    ELSE codepoint

\* mutant: if (codepoint > 0xFF)
OutOfRange_Byte(codepoint) == codepoint > \hFF

\* if (codepoint > 0x1F)
OutOfRange(codepoint) == codepoint > \h1F

\* return JSON_ERR_UNESCAPE; why is the text of the DPRINTF before it
JErr(f, why) == [f EXCEPT !.ret = JSON_ERR_UNESCAPE, !.pc = "returned", !.ev = why]

\* sz++; if (d != NULL) *d++ = b;  then escape = false (where set) and the
\* for loop's s++ after skip more bytes
JEmit(f, b, skip) ==
    [f EXCEPT !.sz = @ + 1,
              !.out = IF f.dst THEN Append(@, b) ELSE @,
              !.escape = FALSE,
              !.s = @ + skip + 1,
              !.ev = "emitted"]

\* one iteration of for (s = src; s < end; s++) in json_unescape
json_unescape_iter(f) ==
    LET ch == f.src[f.s + 1]
    IN  IF f.escape
        THEN IF IsSimpleEscape(ch) THEN JEmit(f, Unescaped(ch), 0)
             ELSE IF ch = \h75
             THEN IF Truncated(f.s, Len(f.src)) THEN JErr(f, "truncated")
                  ELSE LET c == ParseHex(f.src, f.s, 1, 0)
                       IN  IF c < 0 THEN JErr(f, "xdigit")
                           ELSE IF OutOfRange(c)
                           THEN JErr([f EXCEPT !.codepoint = c], "range")
                           ELSE JEmit([f EXCEPT !.codepoint = c], c % 256, 4)
             ELSE JErr(f, "invalid")
        ELSE IF ch = \h5C
        THEN [f EXCEPT !.escape = TRUE, !.s = @ + 1, !.ev = "backslash"]
        ELSE JEmit(f, ch, 0)

\* the code after the loop of json_unescape
json_unescape_return(f) ==
    IF f.escape THEN JErr(f, "incomplete")
    ELSE [f EXCEPT !.ret = IF f.dst THEN Len(f.out) ELSE f.sz,
                   !.pc = "returned", !.ev = "end"]

\* the next step of a JSON call in its loop
JCallStep(f) ==
    IF f.fn = "escape"
    THEN IF f.s < Len(f.src) THEN json_escape_iter(f) ELSE json_escape_return(f)
    ELSE IF f.s < Len(f.src) THEN json_unescape_iter(f) ELSE json_unescape_return(f)

RECURSIVE JRunCall(_)
JRunCall(f) == IF f.pc = "loop" THEN JRunCall(JCallStep(f)) ELSE f

\* the frame in which json_escape(dst, src, len) returns
json_escape(d, bytes) == JRunCall(JEntry("escape", d, bytes, FALSE))

\* the frame in which json_unescape(dst, src, len) returns
json_unescape(d, bytes) == JRunCall(JEntry("unescape", d, bytes, FALSE))

----------------------------------------------------------------------------
(* the drivers: main of the xtf8 tool, l_helper of the Lua module, and    *)
(* xtf8_encode / xtf8_decode of the LuaJIT FFI module                      *)

Min(a, b) == IF a < b THEN a ELSE b

\* no driver entered yet. passes lists the engine calls the driver made,
\* cap is the size of the destination it obtained, fwrites lists the fwrite
\* calls of write_file as <<sz, nw>>, and wret, status and result hold
\* write_file's return value, the process's exit status and the value given
\* back to the Lua caller once there is one
DIdle ==
    [kind |-> "none", pc |-> "idle", mode |-> ENCODE, err |-> XTF8_ERR_REPLACE,
     hex |-> FALSE, outlen |-> 0, cap |-> 0, output |-> <<>>, passes |-> <<>>,
     asserts |-> {}, stdout |-> <<>>, dumped |-> FALSE, n |-> 0, len |-> 0,
     fwrites |-> <<>>, wret |-> {}, status |-> {}, result |-> {}]

\* exit(status), from errx / err or from main's return
Exit(d, status) == [d EXCEPT !.pc = "exited", !.status = {status}]

\* the Lua caller gets an error (luaL_error, or nil and a message)
Fail(d, msg) == [d EXCEPT !.pc = "done", !.result = {[ok |-> FALSE, msg |-> msg]}]

\* outlen = (size_t)f_xtf8(NULL, input, inlen, err);
SizingPassOf(d, bytes) ==
    LET sizing == RunCall(Entry(d.mode, FALSE, bytes, d.err))
    IN  [d EXCEPT !.outlen = sizing.ret,
                  !.passes = Append(@, [dst |-> FALSE, ret |-> sizing.ret]),
                  !.pc = "alloc"]

\* (void)f_xtf8(output, input, inlen, err);
WritingPassOf(d, bytes) ==
    LET writing == RunCall(Entry(d.mode, TRUE, bytes, d.err))
    IN  [d EXCEPT !.output = writing.out,
                  !.passes = Append(@, [dst |-> TRUE, ret |-> writing.ret]),
                  !.pc = "emit"]

\* main, after the sizing pass: assert(outlen != XTF8_ABORTED), a no-op when
\* built with -DNDEBUG; output = calloc(1, outlen), which gives no memory for
\* (size_t)-1 bytes and may give none for any size
main_alloc_of(d, ndebug, got) ==
    LET a == [d EXCEPT !.asserts = IF ndebug \/ d.outlen # XTF8_ABORTED THEN @
                                   ELSE @ \cup {"outlen != XTF8_ABORTED"}]
    IN  IF a.asserts # {} THEN Exit(a, 134)
        ELSE IF ~got \/ d.outlen = XTF8_ABORTED THEN Exit(a, 1)
        ELSE [a EXCEPT !.cap = d.outlen, !.pc = "write"]

\* l_helper, after the sizing pass
l_alloc_of(d, bufsize, got) ==
    IF d.outlen = XTF8_ABORTED THEN Fail(d, "found invalid sequence")
    ELSE IF d.outlen <= bufsize THEN [d EXCEPT !.cap = bufsize, !.pc = "write"]
    ELSE IF ~got THEN Fail(d, "out of memory")
    ELSE [d EXCEPT !.cap = d.outlen, !.pc = "write"]

\* mutant: get_buffer always returns the shared buffer
get_buffer_Shared(size, bufsize) == bufsize

\* get_buffer(size) of xtf8.lua: the size of the buffer it returns
get_buffer(size, bufsize) == IF size > bufsize THEN size ELSE bufsize

\* xtf8_encode / xtf8_decode of xtf8.lua, after the sizing pass
ffi_alloc_of(d, bufsize) ==
    IF d.outlen = XTF8_ABORTED THEN Fail(d, "found invalid sequence")
    ELSE [d EXCEPT !.cap = get_buffer(d.outlen, bufsize), !.pc = "write"]

\* one iteration of while (len > 0) in write_file, fwrite storing nw bytes
write_file_iter(d, nw, block) ==
    LET sz == IF d.len > block THEN block ELSE d.len
        e == [d EXCEPT !.fwrites = Append(@, <<sz, nw>>),
                       !.stdout = @ \o SubSeq(d.output, d.n + 1, d.n + nw)]
    IN  IF nw # sz
        THEN [e EXCEPT !.wret = {-1}, !.pc = "exit"]
        ELSE [e EXCEPT !.n = @ + nw, !.len = @ - nw]

\* fflush(fp); return 0;
write_file_return(d) == [d EXCEPT !.wret = {0}, !.pc = "exit"]

----------------------------------------------------------------------------
(* utf8.h: a scanner fed byte by byte *)

\* uint32_t state = start, codepoint = 0; no byte fed yet
SEntry(start) == [state |-> start, start |-> start, codep |-> 0, bytes |-> <<>>]

\* uint32_t state = UTF8_ACCEPT, as is_utf8 and the transcoder begin
SIdle == SEntry(UTF8_ACCEPT)

\* utf8_decode(&state, &codepoint, byte)
SFeed(c, byte) ==
    LET r == utf8_decode(c.state, c.codep, byte)
    IN  [c EXCEPT !.state = r.state, !.codep = r.codep, !.bytes = Append(@, byte)]

----------------------------------------------------------------------------
(* inputs *)

\* one byte of every kind the scanner tells apart in the sequences of interest:
\* ASCII, continuation bytes, a 2-byte lead, the 3-byte leads EE and EF, and a
\* byte no sequence may hold
Alphabet == {\h41, \h80, \hBD, \hBE, \hBF, \hC3, \hEE, \hEF, \hFF}

RECURSIVE SeqsOfLen(_, _)
SeqsOfLen(S, n) ==
    IF n = 0 THEN {<<>>}
    ELSE {Append(q, b) : q \in SeqsOfLen(S, n - 1), b \in S}

SeqsUpTo(S, n) == UNION {SeqsOfLen(S, k) : k \in 0..n}

\* longer concrete buffers
Scenarios ==
    { <<\h68, \h65, \h6C, \h6C, \h6F>>,           \* "hello"
      <<\hFF, \hFE, \h80>>,                       \* three invalid bytes
      <<\hEE, \hBE, \h90>>,                       \* U+EF90
      <<\h41, \hEE, \hBE, \h90, \h42>>,           \* U+EF90 inside ASCII text
      <<\hC3, \hA9, \hEE, \hBF, \hBF, \hFF>>,     \* U+00E9, U+EFFF, an invalid byte
      <<\hF0, \h9F, \h98, \h80>>,                 \* U+1F600
      <<\hF0, \h9F, \h98, \h41>>,                 \* a 4-byte sequence cut by ASCII
      <<\h41, \hF0, \h9F, \h98>>,                 \* an unfinished 4-byte sequence
      <<\hC0, \h80>>,                             \* overlong NUL
      <<\hED, \hA0, \h80>>,                       \* the surrogate U+D800
      <<\hF4, \h90, \h80, \h80>> }                \* above U+10FFFF

Inputs == SeqsUpTo(Alphabet, MaxLen) \cup Scenarios

Modes == {ENCODE, DECODE}
Policies == {XTF8_ERR_REPLACE, XTF8_ERR_ABORT}

----------------------------------------------------------------------------
(* Spec: the engine, one loop iteration per step *)

Init ==
    /\ src \in Inputs
    /\ fr = Idle
    /\ sized = FALSE
    /\ outlen = 0
    /\ data = src
    /\ hist = <<>>
    /\ jf = JIdle
    /\ drv = DIdle
    /\ fr2 = Idle
    /\ sc = SIdle

\* a caller enters xtf8_encode or xtf8_decode on its buffer, with a destination
\* (large enough) or with dst = NULL
Call(m, e, d) ==
    /\ fr.pc = "idle"
    /\ fr' = Entry(m, d, src, e)
    /\ UNCHANGED <<src, fr2, sc, sized, outlen, data, hist, jf, drv>>

\* the two-pass callers: the sizing pass did not abort, so allocate outlen
\* bytes and run the writing pass on the same input with the same policy
CallWrite ==
    /\ fr.pc = "returned"
    /\ ~fr.dst
    /\ fr.ret # XTF8_ABORTED
    /\ sized' = TRUE
    /\ outlen' = fr.ret
    /\ fr' = Entry(fr.mode, TRUE, src, fr.error)
    /\ UNCHANGED <<src, fr2, sc, data, hist, jf, drv>>

EncodeIter ==
    /\ fr.pc = "loop"
    /\ fr.mode = ENCODE
    /\ fr.s < EndOf(fr)
    /\ fr' = xtf8_encode_iter(fr)
    /\ UNCHANGED <<src, fr2, sc, sized, outlen, data, hist, jf, drv>>

EncodeReturn ==
    /\ fr.pc = "loop"
    /\ fr.mode = ENCODE
    /\ ~(fr.s < EndOf(fr))
    /\ fr' = xtf8_encode_return(fr)
    /\ UNCHANGED <<src, fr2, sc, sized, outlen, data, hist, jf, drv>>

DecodeIter ==
    /\ fr.pc = "loop"
    /\ fr.mode = DECODE
    /\ fr.s < EndOf(fr)
    /\ fr' = xtf8_decode_iter(fr)
    /\ UNCHANGED <<src, fr2, sc, sized, outlen, data, hist, jf, drv>>

DecodeReturn ==
    /\ fr.pc = "loop"
    /\ fr.mode = DECODE
    /\ ~(fr.s < EndOf(fr))
    /\ fr' = xtf8_decode_return(fr)
    /\ UNCHANGED <<src, fr2, sc, sized, outlen, data, hist, jf, drv>>

Next ==
    \/ \E m \in Modes, e \in Policies, d \in BOOLEAN : Call(m, e, d)
    \/ CallWrite
    \/ EncodeIter
    \/ EncodeReturn
    \/ DecodeIter
    \/ DecodeReturn

Spec == Init /\ [][Next]_vars

----------------------------------------------------------------------------
(* SpecPipe: the documented use of the Lua binding, one binding call per  *)
(* step:  encoded = xtf8.encode(data, err); decoded = xtf8.decode(encoded, err) *)

\* the string l_helper pushes: outlen bytes of the buffer p, whose bytes past
\* the ones the writing pass stored are uninitialised (junk)
Pushed(out, n, junk) ==
    IF n <= Len(out) THEN SubSeq(out, 1, n)
    ELSE out \o [i \in 1..(n - Len(out)) |-> junk]

\* l_helper: the sizing pass, the check for XTF8_ABORTED (a Lua error), then
\* the writing pass into a buffer and a result of outlen bytes
l_helper(is_encode, err) ==
    LET m == IF is_encode THEN ENCODE ELSE DECODE
        sizing == RunCall(Entry(m, FALSE, data, err))
        writing == RunCall(Entry(m, TRUE, data, err))
    IN  /\ IF sizing.ret = XTF8_ABORTED
           THEN /\ hist' = Append(hist, [fn |-> m, err |-> err, ok |-> FALSE])
                /\ data' = data
           ELSE /\ hist' = Append(hist, [fn |-> m, err |-> err, ok |-> TRUE])
                /\ \E junk \in (IF sizing.ret > Len(writing.out)
                                 THEN {0, \hFF} ELSE {0}) :
                       data' = Pushed(writing.out, sizing.ret, junk)
        /\ UNCHANGED <<src, fr2, sc, fr, sized, outlen, jf, drv>>

\* encoded = xtf8.encode(data, err)
l_encode(err) ==
    /\ hist = <<>>
    /\ l_helper(TRUE, err)

\* decoded = xtf8.decode(encoded, err)
l_decode(err) ==
    /\ Len(hist) = 1
    /\ hist[1].ok
    /\ l_helper(FALSE, err)

PipeNext ==
    \/ \E err \in Policies : l_encode(err)
    \/ \E err \in Policies : l_decode(err)

SpecPipe == Init /\ [][PipeNext]_vars

----------------------------------------------------------------------------
(* SpecMap: the same use of the binding on every buffer of one byte that   *)
(* is not ASCII                                                            *)

ByteInputs == {<<b>> : b \in \h80..\hFF}

InitMap ==
    /\ src \in ByteInputs
    /\ fr = Idle
    /\ sized = FALSE
    /\ outlen = 0
    /\ data = src
    /\ hist = <<>>
    /\ jf = JIdle
    /\ drv = DIdle
    /\ fr2 = Idle
    /\ sc = SIdle

SpecMap == InitMap /\ [][PipeNext]_vars

----------------------------------------------------------------------------
(* SpecJson: json_escape and json_unescape, one loop iteration per step    *)

\* longest buffer drawn from JsonAlphabet
MaxJsonLen == 3

\* control bytes with and without a short escape, the two characters that get
\* a backslash, the letters n and u, a hex digit that is also a letter, and a
\* byte above ASCII
JsonAlphabet == {\h01, \h0A, \h1F, \h22, \h5C, \h6E, \h75, \h41, \hFF}

\* what may stand where the four digits of \u00XX are expected
JsonDigits == {\h30, \h31, \h32, \h46, \h47, \h61}

\* a \u escape with up to four digit characters, at the end of the text or
\* followed by one more character
JsonUnicodeInputs ==
    {<<\h5C, \h75>> \o q \o t : q \in SeqsUpTo(JsonDigits, 4), t \in {<<>>, <<\h41>>}}

\* longer concrete texts
JsonScenarios ==
    { <<\h5C, \h22>>,                                     \* \"
      <<\h68, \h69, \h0A, \h00, \h22, \h5C, \h7F, \hFF>>,  \* text with escapes of every kind
      <<\h41, \h5C, \h75, \h30, \h30, \h31, \h46, \h42>>,  \* A\u001FB
      <<\h41, \h5C, \h75, \h30, \h30, \h32, \h30, \h42>>,  \* A B
      <<\h5C, \h6E, \h5C, \h75, \h30, \h30, \h30, \h30, \h5C, \h5C>>,  \* \n\u0000\\
      <<\h41, \h00>>, <<\h1B>> }

JsonInputs == SeqsUpTo(JsonAlphabet, MaxJsonLen) \cup JsonUnicodeInputs \cup JsonScenarios

JsonFns == {"escape", "unescape"}

InitJson ==
    /\ src \in JsonInputs
    /\ fr = Idle
    /\ sized = FALSE
    /\ outlen = 0
    /\ data = src
    /\ hist = <<>>
    /\ jf = JIdle
    /\ drv = DIdle
    /\ fr2 = Idle
    /\ sc = SIdle

\* main calls json_escape or json_unescape on its buffer, dst NULL or not
JsonCall(fn, d) ==
    /\ jf.pc = "idle"
    /\ jf' = JEntry(fn, d, src, FALSE)
    /\ UNCHANGED <<src, fr2, sc, fr, sized, outlen, data, hist, drv>>

\* main: the sizing call did not return JSON_ERR_UNESCAPE, so allocate jlen
\* bytes and call again with the buffer
JsonCallWrite ==
    /\ jf.pc = "returned"
    /\ ~jf.dst
    /\ jf.ret # JSON_ERR_UNESCAPE
    /\ jf' = [JEntry(jf.fn, TRUE, jf.src, jf.again) EXCEPT !.sized = TRUE, !.jlen = jf.ret]
    /\ UNCHANGED <<src, fr2, sc, fr, sized, outlen, data, hist, drv>>

\* the text written by xtf8 -j is given to xtf8 -d -j: json_unescape is
\* called on the bytes json_escape wrote
UnescapeEscaped(d) ==
    /\ jf.pc = "returned"
    /\ jf.fn = "escape"
    /\ jf.dst
    /\ ~jf.again
    /\ jf' = JEntry("unescape", d, jf.out, TRUE)
    /\ UNCHANGED <<src, fr2, sc, fr, sized, outlen, data, hist, drv>>

EscapeIter ==
    /\ jf.pc = "loop"
    /\ jf.fn = "escape"
    /\ jf.s < Len(jf.src)
    /\ jf' = json_escape_iter(jf)
    /\ UNCHANGED <<src, fr2, sc, fr, sized, outlen, data, hist, drv>>

EscapeReturn ==
    /\ jf.pc = "loop"
    /\ jf.fn = "escape"
    /\ ~(jf.s < Len(jf.src))
    /\ jf' = json_escape_return(jf)
    /\ UNCHANGED <<src, fr2, sc, fr, sized, outlen, data, hist, drv>>

UnescapeIter ==
    /\ jf.pc = "loop"
    /\ jf.fn = "unescape"
    /\ jf.s < Len(jf.src)
    /\ jf' = json_unescape_iter(jf)
    /\ UNCHANGED <<src, fr2, sc, fr, sized, outlen, data, hist, drv>>

UnescapeReturn ==
    /\ jf.pc = "loop"
    /\ jf.fn = "unescape"
    /\ ~(jf.s < Len(jf.src))
    /\ jf' = json_unescape_return(jf)
    /\ UNCHANGED <<src, fr2, sc, fr, sized, outlen, data, hist, drv>>

JsonNext ==
    \/ \E fn \in JsonFns, d \in BOOLEAN : JsonCall(fn, d)
    \/ JsonCallWrite
    \/ \E d \in BOOLEAN : UnescapeEscaped(d)
    \/ EscapeIter
    \/ EscapeReturn
    \/ UnescapeIter
    \/ UnescapeReturn

SpecJson == InitJson /\ [][JsonNext]_vars

----------------------------------------------------------------------------
(* SpecDrv: the three drivers, one step of a driver per step               *)

\* write_file's block_size, LUAL_BUFFERSIZE of luaconf.h and _buf_size of
\* xtf8.lua, scaled down to the size of the model's buffers (1024, the Lua
\* build's value and 4096 in the code) so that outputs fall on both sides
block_size == 2
LUAL_BUFFERSIZE == 4
buf_size == 4

DrvAlphabet == {\h41, \h80, \hC3, \hFF}

DrvInputs == SeqsUpTo(DrvAlphabet, MaxLen) \cup Scenarios

InitDrv ==
    /\ src \in DrvInputs
    /\ fr = Idle
    /\ sized = FALSE
    /\ outlen = 0
    /\ data = src
    /\ hist = <<>>
    /\ jf = JIdle
    /\ drv = DIdle
    /\ fr2 = Idle
    /\ sc = SIdle

\* main up to the sizing pass: xtf8_err = XTF8_ERR_REPLACE, the options -d and
\* -x, f_xtf8 chosen, the input read; errx(1, ...) on an empty input
main_start(decode, hex) ==
    /\ drv.pc = "idle"
    /\ LET d == [drv EXCEPT !.kind = "main", !.err = XTF8_ERR_REPLACE, !.hex = hex,
                            !.mode = IF decode THEN DECODE ELSE ENCODE]
       IN  drv' = IF Len(src) = 0 THEN Exit(d, 1) ELSE [d EXCEPT !.pc = "size"]
    /\ UNCHANGED <<src, fr2, sc, fr, sized, outlen, data, hist, jf>>

\* l_helper up to the sizing pass
l_start(is_encode, err) ==
    /\ drv.pc = "idle"
    /\ drv' = [drv EXCEPT !.kind = "lua", !.err = err, !.pc = "size",
                          !.mode = IF is_encode THEN ENCODE ELSE DECODE]
    /\ UNCHANGED <<src, fr2, sc, fr, sized, outlen, data, hist, jf>>

\* xtf8_encode / xtf8_decode of xtf8.lua up to the sizing pass
ffi_start(is_encode, err) ==
    /\ drv.pc = "idle"
    /\ drv' = [drv EXCEPT !.kind = "ffi", !.err = err, !.pc = "size",
                          !.mode = IF is_encode THEN ENCODE ELSE DECODE]
    /\ UNCHANGED <<src, fr2, sc, fr, sized, outlen, data, hist, jf>>

SizingPass ==
    /\ drv.pc = "size"
    /\ drv' = SizingPassOf(drv, src)
    /\ UNCHANGED <<src, fr2, sc, fr, sized, outlen, data, hist, jf>>

main_alloc ==
    /\ drv.pc = "alloc" /\ drv.kind = "main"
    /\ \E ndebug \in BOOLEAN, got \in BOOLEAN : drv' = main_alloc_of(drv, ndebug, got)
    /\ UNCHANGED <<src, fr2, sc, fr, sized, outlen, data, hist, jf>>

l_alloc ==
    /\ drv.pc = "alloc" /\ drv.kind = "lua"
    /\ \E got \in BOOLEAN : drv' = l_alloc_of(drv, LUAL_BUFFERSIZE, got)
    /\ UNCHANGED <<src, fr2, sc, fr, sized, outlen, data, hist, jf>>

ffi_alloc ==
    /\ drv.pc = "alloc" /\ drv.kind = "ffi"
    /\ drv' = ffi_alloc_of(drv, buf_size)
    /\ UNCHANGED <<src, fr2, sc, fr, sized, outlen, data, hist, jf>>

WritingPass ==
    /\ drv.pc = "write"
    /\ drv' = WritingPassOf(drv, src)
    /\ UNCHANGED <<src, fr2, sc, fr, sized, outlen, data, hist, jf>>

\* luaL_addsize or luaL_addlstring, then luaL_pushresult: a string of outlen bytes
l_push ==
    /\ drv.pc = "emit" /\ drv.kind = "lua"
    /\ \E junk \in (IF drv.outlen > Len(drv.output) THEN {0, \hFF} ELSE {0}) :
           drv' = [drv EXCEPT !.pc = "done",
                      !.result = {[ok |-> TRUE, msg |-> Pushed(drv.output, drv.outlen, junk)]}]
    /\ UNCHANGED <<src, fr2, sc, fr, sized, outlen, data, hist, jf>>

\* return ffi.string(buf, len)
ffi_string ==
    /\ drv.pc = "emit" /\ drv.kind = "ffi"
    /\ \E junk \in (IF drv.outlen > Len(drv.output) THEN {0, \hFF} ELSE {0}) :
           drv' = [drv EXCEPT !.pc = "done",
                      !.result = {[ok |-> TRUE, msg |-> Pushed(drv.output, drv.outlen, junk)]}]
    /\ UNCHANGED <<src, fr2, sc, fr, sized, outlen, data, hist, jf>>

\* main: if (hex) hexdump(stdout, output, outlen); the text of the dump is
\* not modelled, only that it was made
main_hexdump ==
    /\ drv.pc = "emit" /\ drv.kind = "main" /\ drv.hex
    /\ drv' = [drv EXCEPT !.dumped = TRUE, !.pc = "exit"]
    /\ UNCHANGED <<src, fr2, sc, fr, sized, outlen, data, hist, jf>>

\* main: else write_file(fp, output, outlen), entered: n = 0
main_write_file ==
    /\ drv.pc = "emit" /\ drv.kind = "main" /\ ~drv.hex
    /\ drv' = [drv EXCEPT !.n = 0, !.len = drv.outlen, !.pc = "write_file"]
    /\ UNCHANGED <<src, fr2, sc, fr, sized, outlen, data, hist, jf>>

\* one iteration of write_file's loop; fwrite stores any number of the sz bytes
WriteFileIter ==
    /\ drv.pc = "write_file" /\ drv.len > 0
    /\ \E nw \in 0..Min(drv.len, block_size) : drv' = write_file_iter(drv, nw, block_size)
    /\ UNCHANGED <<src, fr2, sc, fr, sized, outlen, data, hist, jf>>

WriteFileReturn ==
    /\ drv.pc = "write_file" /\ ~(drv.len > 0)
    /\ drv' = write_file_return(drv)
    /\ UNCHANGED <<src, fr2, sc, fr, sized, outlen, data, hist, jf>>

\* main: the value of write_file is not used; free, fclose, return 0
main_return ==
    /\ drv.pc = "exit"
    /\ drv' = Exit(drv, 0)
    /\ UNCHANGED <<src, fr2, sc, fr, sized, outlen, data, hist, jf>>

DrvNext ==
    \/ \E decode \in BOOLEAN, hex \in BOOLEAN : main_start(decode, hex)
    \/ \E is_encode \in BOOLEAN, err \in Policies : l_start(is_encode, err)
    \/ \E is_encode \in BOOLEAN, err \in Policies : ffi_start(is_encode, err)
    \/ SizingPass
    \/ main_alloc
    \/ l_alloc
    \/ ffi_alloc
    \/ WritingPass
    \/ l_push
    \/ ffi_string
    \/ main_hexdump
    \/ main_write_file
    \/ WriteFileIter
    \/ WriteFileReturn
    \/ main_return

SpecDrv == InitDrv /\ [][DrvNext]_vars

----------------------------------------------------------------------------
(* SpecPar: two engine calls on buffers of their own, their loop           *)
(* iterations interleaved in any order                                     *)

\* mutant: static uint32_t s_cur; the scanner state is one object for all calls
OwnFrame_StaticScanner(own, other) ==
    IF other.pc = "loop" THEN [own EXCEPT !.s_cur = other.s_cur] ELSE own

\* what a step of a call reads and writes: its arguments and its locals, which
\* have automatic storage; nothing of the other call
OwnFrame(own, other) == own

\* longest buffer of a concurrent call
MaxParLen == 2

ParInputs ==
    SeqsUpTo({\h41, \hC3}, MaxParLen) \cup {<<\hFF>>, <<\hFF, \h41>>, <<\hEE, \hBE, \h90>>}

InitPar ==
    /\ src \in ParInputs
    /\ fr = Idle
    /\ sized = FALSE
    /\ outlen = 0
    /\ data = src
    /\ hist = <<>>
    /\ jf = JIdle
    /\ drv = DIdle
    /\ fr2 = Idle
    /\ sc = SIdle

\* one thread enters xtf8_encode or xtf8_decode on src with a buffer
ParCall1(m, e) ==
    /\ fr.pc = "idle"
    /\ fr' = Entry(m, TRUE, src, e)
    /\ UNCHANGED <<src, fr2, sc, sized, outlen, data, hist, jf, drv>>

\* another thread enters xtf8_encode or xtf8_decode on a buffer of its own
ParCall2(m, e, bytes) ==
    /\ fr2.pc = "idle"
    /\ fr2' = Entry(m, TRUE, bytes, e)
    /\ UNCHANGED <<src, fr, sc, sized, outlen, data, hist, jf, drv>>

\* the first call runs one loop iteration, or its return
ParStep1 ==
    /\ fr.pc = "loop"
    /\ fr' = CallStep(OwnFrame(fr, fr2))
    /\ UNCHANGED <<src, fr2, sc, sized, outlen, data, hist, jf, drv>>

\* the second call runs one loop iteration, or its return
ParStep2 ==
    /\ fr2.pc = "loop"
    /\ fr2' = CallStep(OwnFrame(fr2, fr))
    /\ UNCHANGED <<src, fr, sc, sized, outlen, data, hist, jf, drv>>

ParNext ==
    \/ \E m \in Modes, e \in Policies : ParCall1(m, e)
    \/ \E m \in Modes, e \in Policies, bytes \in ParInputs : ParCall2(m, e, bytes)
    \/ ParStep1
    \/ ParStep2

SpecPar == InitPar /\ [][ParNext]_vars

----------------------------------------------------------------------------
(* SpecScan: utf8_decode called byte after byte on one state word, from     *)
(* ACCEPT until a codepoint is complete or rejected, and from REJECT        *)

\* bytes fed to a scanner that started in ACCEPT
MaxScanLen == 5

\* bytes fed to a scanner that started in REJECT
MaxSticky == 2

AllBytes == 0..255

\* bytes tried from the third position on: the ends of every range of the table
EdgeBytes ==
    {\h00, \h41, \h7F, \h80, \h8F, \h90, \h9F, \hA0, \hBF,
     \hC0, \hC2, \hE0, \hED, \hF0, \hF4, \hFF}

\* the bytes tried at position n (1-based)
BytesAt(n) == IF n <= 2 THEN AllBytes ELSE EdgeBytes

InitScan ==
    /\ src = <<>>
    /\ fr = Idle
    /\ sized = FALSE
    /\ outlen = 0
    /\ data = <<>>
    /\ hist = <<>>
    /\ jf = JIdle
    /\ drv = DIdle
    /\ fr2 = Idle
    /\ sc \in {SEntry(UTF8_ACCEPT), SEntry(UTF8_REJECT)}

\* state = utf8_decode(&state, &codepoint, byte) while no codepoint is
\* complete and none was rejected
ScanByte(byte) ==
    /\ sc.start = UTF8_ACCEPT
    /\ Len(sc.bytes) < MaxScanLen
    /\ sc.bytes = <<>> \/ sc.state \notin {UTF8_ACCEPT, UTF8_REJECT}
    /\ byte \in BytesAt(Len(sc.bytes) + 1)
    /\ sc' = SFeed(sc, byte)
    /\ UNCHANGED <<src, fr, sized, outlen, data, hist, jf, drv, fr2>>

\* utf8_decode(&state, &codepoint, byte) on a state word the caller left in
\* REJECT
ScanRejected(byte) ==
    /\ sc.start = UTF8_REJECT
    /\ Len(sc.bytes) < MaxSticky
    /\ byte \in (IF sc.bytes = <<>> THEN AllBytes ELSE EdgeBytes)
    /\ sc' = SFeed(sc, byte)
    /\ UNCHANGED <<src, fr, sized, outlen, data, hist, jf, drv, fr2>>

ScanNext ==
    \/ \E byte \in AllBytes : ScanByte(byte)
    \/ \E byte \in AllBytes : ScanRejected(byte)

SpecScan == InitScan /\ [][ScanNext]_vars

----------------------------------------------------------------------------

(* Vocabulary of the properties *)

TypeOK ==
    /\ fr.pc \in {"idle", "loop", "returned"}
    /\ fr.s \in 0..Len(fr.src)
    /\ fr.pos \in 0..Len(fr.src)

Returned == fr.pc = "returned"

\* the bytes at i, i+1, i+2 are the 3-byte UTF-8 form of a codepoint of
\* U+EF80..U+EFFF: EE, then BE or BF, then a continuation byte
PUASeqAt(bytes, i) ==
    /\ i + 2 <= Len(bytes)
    /\ bytes[i] = \hEE
    /\ bytes[i + 1] \in {\hBE, \hBF}
    /\ bytes[i + 2] \in \h80..\hBF

HasPUASeq(bytes) == \E i \in 1..Len(bytes) : PUASeqAt(bytes, i)

\* the scanner states visited while scanning bytes from ACCEPT
RECURSIVE ScanVisits(_, _)
ScanVisits(state, bytes) ==
    IF bytes = <<>> THEN {state}
    ELSE {state} \cup ScanVisits(Utf8State(state, Head(bytes)), Tail(bytes))

\* bytes with every sequence of U+EF80..U+EFFF replaced by EF BF BD
RECURSIVE ReplaceCollisions(_)
ReplaceCollisions(bytes) ==
    IF bytes = <<>> THEN <<>>
    ELSE IF PUASeqAt(bytes, 1)
    THEN <<\hEF, \hBF, \hBD>> \o ReplaceCollisions(SubSeq(bytes, 4, Len(bytes)))
    ELSE <<Head(bytes)>> \o ReplaceCollisions(Tail(bytes))

\* the last n elements of a sequence
LastN(q, n) == SubSeq(q, Len(q) - n + 1, Len(q))

\* the sum of a sequence of numbers
RECURSIVE SumSeq(_)
SumSeq(q) == IF q = <<>> THEN 0 ELSE Head(q) + SumSeq(Tail(q))

\* the iterations of while (s < end) the call has run so far
Iterations(f) == SumSeq(f.scans)

\* twice the bytes left to scan, plus one while a rewind is still possible
Measure(f) == 2 * (EndOf(f) - f.s) + (IF f.s_prev # UTF8_ACCEPT THEN 1 ELSE 0)

JReturned == jf.pc = "returned"

\* the sixteen characters 0-9, A-F
UpperHex ==
    <<\h30, \h31, \h32, \h33, \h34, \h35, \h36, \h37, \h38, \h39,
      \h41, \h42, \h43, \h44, \h45, \h46>>

\* the JSON text for one byte, as the escaping rule states it
JsonRendering(ch) ==
    IF ch = \h0A THEN <<\h5C, \h6E>>
    ELSE IF ch = \h0D THEN <<\h5C, \h72>>
    ELSE IF ch = \h09 THEN <<\h5C, \h74>>
    ELSE IF ch = \h08 THEN <<\h5C, \h62>>
    ELSE IF ch = \h0C THEN <<\h5C, \h66>>
    ELSE IF ch < \h20
    THEN <<\h5C, \h75, \h30, \h30, UpperHex[(ch \div 16) + 1], UpperHex[(ch % 16) + 1]>>
    ELSE IF ch = \h5C \/ ch = \h22 THEN <<\h5C, ch>>
    ELSE <<ch>>

RECURSIVE JsonRenderAll(_)
JsonRenderAll(bytes) ==
    IF bytes = <<>> THEN <<>>
    ELSE JsonRendering(Head(bytes)) \o JsonRenderAll(Tail(bytes))

\* characters that are hex digits in either case
AnyHex == (\h30..\h39) \cup (\h41..\h46) \cup (\h61..\h66)

\* the value of an upper-case hex digit character
UpperHexValue(ch) == IF ch <= \h39 THEN ch - \h30 ELSE ch - \h41 + 10

\* the text holds, after well-formed escapes only, one of: a backslash at the
\* very end, a backslash before a character that starts no escape, \u with
\* fewer than four characters after it, \u with a character that is no hex
\* digit among the next four, or \u with four upper-case hex digits of a value
\* above 0x1F
RECURSIVE HasBadEscape(_)
HasBadEscape(bytes) ==
    IF bytes = <<>> THEN FALSE
    ELSE IF Head(bytes) # \h5C THEN HasBadEscape(Tail(bytes))
    ELSE IF Len(bytes) = 1 THEN TRUE
    ELSE IF bytes[2] \in {\h5C, \h22, \h6E, \h72, \h74, \h62, \h66}
    THEN HasBadEscape(SubSeq(bytes, 3, Len(bytes)))
    ELSE IF bytes[2] # \h75 THEN TRUE
    ELSE IF Len(bytes) - 2 < 4 THEN TRUE
    ELSE IF \E k \in 3..6 : bytes[k] \notin AnyHex THEN TRUE
    ELSE IF \E k \in 3..6 : bytes[k] \in \h61..\h66 THEN FALSE
    ELSE IF UpperHexValue(bytes[3]) * 4096 + UpperHexValue(bytes[4]) * 256
              + UpperHexValue(bytes[5]) * 16 + UpperHexValue(bytes[6]) > \h1F
    THEN TRUE
    ELSE HasBadEscape(SubSeq(bytes, 7, Len(bytes)))

\* the frame of a call after k steps when it runs alone
RECURSIVE RunSteps(_, _)
RunSteps(f, k) == IF k = 0 \/ f.pc # "loop" THEN f ELSE RunSteps(CallStep(f), k - 1)

\* the frame f is what the same call reaches when it runs alone: after as
\* many iterations while in its loop, at its return once returned
AsAlone(f) ==
    LET entry == Entry(f.mode, f.dst, f.src, f.error)
    IN  /\ f.pc = "loop" => f = RunSteps(entry, Iterations(f))
        /\ f.pc = "returned" => f = RunCall(entry)

\* the shortest UTF-8 form of a codepoint, by the definition of UTF-8
Utf8Encode(c) ==
    IF c < \h80 THEN <<c>>
    ELSE IF c < \h800 THEN <<\hC0 + (c \div 64), \h80 + (c % 64)>>
    ELSE IF c < \h10000
    THEN <<\hE0 + (c \div 4096), \h80 + ((c \div 64) % 64), \h80 + (c % 64)>>
    ELSE <<\hF0 + (c \div 262144), \h80 + ((c \div 4096) % 64),
           \h80 + ((c \div 64) % 64), \h80 + (c % 64)>>

\* each byte of bytes as the UTF-8 form of 0xEF80 | (byte & 0x7F), in order
RECURSIVE MappedForm(_)
MappedForm(bytes) ==
    IF bytes = <<>> THEN <<>>
    ELSE Utf8Encode(\hEF80 + (Head(bytes) % 128)) \o MappedForm(Tail(bytes))

\* the step taken is an iteration of the loop of a call in mode m
IterOf(m) == fr.mode = m /\ fr.pc = "loop" /\ fr.s < EndOf(fr) /\ fr' # fr

\* the scanner reports REJECT for the byte at s
RejectsAtS == Utf8State(fr.s_cur, fr.src[fr.s + 1]) = UTF8_REJECT

----------------------------------------------------------------------------
(* Properties *)

\* C1 (as claimed): when the input holds no byte sequence decoding to a codepoint
\* of U+EF80..U+EFFF, decoding under REPLACE what encoding under REPLACE
\* produced gives back the input byte for byte.
C1_RoundTrip ==
    (/\ Len(hist) = 2
     /\ hist[1].err = XTF8_ERR_REPLACE
     /\ hist[2].err = XTF8_ERR_REPLACE
     /\ hist[2].ok
     /\ ~HasPUASeq(src))
    => data = src

\* C2: the output of a writing xtf8_encode call under REPLACE is valid UTF-8:
\* the scanner run over it from ACCEPT never visits REJECT and ends in ACCEPT,
\* and the is_utf8 assertion holds.
C2_EncodeOutputValid ==
    (Returned /\ fr.mode = ENCODE /\ fr.error = XTF8_ERR_REPLACE /\ fr.dst)
    => /\ UTF8_REJECT \notin ScanVisits(UTF8_ACCEPT, fr.out)
       /\ ScanState(UTF8_ACCEPT, fr.out) = UTF8_ACCEPT
       /\ "is_utf8" \notin fr.asserts

\* C2 witness: an encode under REPLACE has returned an output that holds mapped
\* bytes, a replaced collision and copied text.
C2_Witness ==
    /\ Returned /\ fr.mode = ENCODE /\ fr.error = XTF8_ERR_REPLACE /\ fr.dst
    /\ fr.src = <<\hC3, \hA9, \hEE, \hBF, \hBF, \hFF>>
    /\ fr.out = <<\hC3, \hA9, \hEF, \hBF, \hBD, \hEE, \hBF, \hBF>>

\* C3: whenever xtf8_decode accepts a codepoint of U+EF80..U+EFFF, under either
\* policy and whatever the rest of the input, the byte it emits is in 0x80..0xFF
\* (and the assertion v >= 0x80 holds).
C3_NoAsciiSmuggling ==
    (fr.mode = DECODE /\ fr.ev = "decoded")
    => /\ IsPUA(fr.codepoint)
       /\ fr.v \in \h80..\hFF
       /\ "v>=0x80" \notin fr.asserts
       /\ fr.dst => (fr.out # <<>> /\ fr.out[Len(fr.out)] = fr.v)

\* C3 witness: a writing decode of a malformed input has just emitted the byte
\* of a PUA codepoint.
C3_Witness ==
    /\ fr.mode = DECODE /\ fr.ev = "decoded" /\ fr.dst
    /\ ~is_utf8(fr.src)
    /\ fr.out # <<>> /\ fr.out[Len(fr.out)] = \hFF

\* C4: when the sizing pass returned a length L, the writing pass over the same
\* input, mode and policy never holds more than L written bytes at any step,
\* does not abort, and returns dst + L with exactly L bytes written.
C4_SizingWritingConsistent ==
    (sized /\ fr.dst)
    => /\ Len(fr.out) <= outlen
       /\ fr.sz <= outlen
       /\ Returned => (fr.ret = outlen /\ Len(fr.out) = outlen)

\* C4 witness: a writing pass that followed a sizing pass has returned after
\* copying, mapping and replacing bytes.
C4_Witness ==
    /\ sized /\ fr.dst /\ Returned
    /\ fr.src = <<\hC3, \hA9, \hEE, \hBF, \hBF, \hFF>>
    /\ outlen = 8 /\ fr.ret = 8

\* C5 (as claimed): an xtf8_encode call under ABORT, sizing or writing, on an
\* input holding the 3-byte form of a codepoint of U+EF80..U+EFFF returns the
\* sentinel and has written nothing.
C5_AbortWritesNothing ==
    (Returned /\ fr.mode = ENCODE /\ fr.error = XTF8_ERR_ABORT /\ HasPUASeq(fr.src))
    => (fr.ret = XTF8_ABORTED /\ fr.out = <<>>)

\* C5 (amended): such a call returns the sentinel; the sizing call writes
\* nothing, and the writing call has written only the output for the input that
\* precedes the first collision: exactly the bytes a REPLACE call on the same
\* input writes before the EF BF BD it emits for that collision.
C5_AbortReturnsSentinel ==
    (Returned /\ fr.mode = ENCODE /\ fr.error = XTF8_ERR_ABORT /\ HasPUASeq(fr.src))
    => /\ fr.ret = XTF8_ABORTED
       /\ PUASeqAt(fr.src, fr.pos + 1)
       /\ ~HasPUASeq(SubSeq(fr.src, 1, fr.pos))
       /\ ~fr.dst => fr.out = <<>>
       /\ fr.dst =>
             LET r == xtf8_encode(TRUE, fr.src, XTF8_ERR_REPLACE).out
                 n == Len(fr.out)
             IN  /\ n <= 3 * fr.pos
                 /\ Len(r) >= n + 3
                 /\ SubSeq(r, 1, n) = fr.out
                 /\ SubSeq(r, n + 1, n + 3) = <<\hEF, \hBF, \hBD>>

\* C5 witness: a writing encode under ABORT returned the sentinel after it had
\* already stored output for the text before the collision.
C5_Witness ==
    /\ Returned /\ fr.mode = ENCODE /\ fr.error = XTF8_ERR_ABORT /\ fr.dst
    /\ HasPUASeq(fr.src)
    /\ fr.ret = XTF8_ABORTED
    /\ fr.out # <<>>

\* C6: under REPLACE xtf8_encode emits exactly EF BF BD for a sequence it
\* treats as a collision, the sequences it treats so are exactly the 3-byte
\* forms of U+EF80..U+EFFF (each of them, in any input, once its last byte is
\* scanned), and a valid UTF-8 input comes out with each of those replaced and
\* every other sequence (U+EF7F and U+F000 among them) copied verbatim.
C6_CollisionReplacement ==
    /\ (fr.mode = ENCODE /\ fr.ev = "collision")
       => /\ fr.s >= 3
          /\ PUASeqAt(fr.src, fr.s - 2)
          /\ fr.dst => (Len(fr.out) >= 3 /\ LastN(fr.out, 3) = <<\hEF, \hBF, \hBD>>)
    /\ (fr.mode = ENCODE /\ fr.error = XTF8_ERR_REPLACE /\ fr.pc = "loop"
           /\ fr.s >= 3 /\ PUASeqAt(fr.src, fr.s - 2))
       => fr.ev = "collision"
    /\ (Returned /\ fr.mode = ENCODE /\ fr.error = XTF8_ERR_REPLACE /\ fr.dst
           /\ is_utf8(fr.src))
       => fr.out = ReplaceCollisions(fr.src)

\* C6 witness: the encoding of U+EF90 has been replaced by EF BF BD.
C6_Witness ==
    /\ Returned /\ fr.mode = ENCODE /\ fr.error = XTF8_ERR_REPLACE /\ fr.dst
    /\ fr.src = <<\hEE, \hBE, \h90>>
    /\ fr.out = <<\hEF, \hBF, \hBD>>

\* C7: under REPLACE neither xtf8_encode nor xtf8_decode takes the abort
\* return; the call runs to the end of the input and returns a length or an
\* end pointer. The sentinel is returned only under ABORT.
C7_ReplaceNeverAborts ==
    /\ fr.error = XTF8_ERR_REPLACE
       => /\ fr.ev # "abort"
          /\ Returned => (fr.ret # XTF8_ABORTED /\ fr.ret >= 0 /\ fr.s = EndOf(fr))
    /\ (Returned /\ fr.ret = XTF8_ABORTED) => fr.error = XTF8_ERR_ABORT

\* C7 witness: a decode under REPLACE of an input that is not UTF-8 returned
\* a length.
C7_Witness ==
    /\ Returned /\ fr.mode = DECODE /\ fr.error = XTF8_ERR_REPLACE
    /\ fr.src = <<\hFF, \hFE, \h80>>
    /\ fr.ret = 9

\* C8 (as claimed): encoding FF FE 80 produces EF BE BF, EF BE BE, EF BE 80.
C8_ScenarioAsClaimed ==
    (Returned /\ fr.mode = ENCODE /\ fr.dst /\ fr.src = <<\hFF, \hFE, \h80>>)
    => fr.out = <<\hEF, \hBE, \hBF, \hEF, \hBE, \hBE, \hEF, \hBE, \h80>>

\* C8 (amended): encoding FF FE 80 produces the nine bytes EE BF BF, EE BF BE,
\* EE BE 80, the UTF-8 forms of U+EFFF, U+EFFE and U+EF80: one 3-byte sequence
\* per input byte, in order.
C8_ScenarioBytes ==
    (Returned /\ fr.mode = ENCODE /\ fr.src = <<\hFF, \hFE, \h80>>)
    => /\ fr.ret = 9
       /\ fr.dst => fr.out = <<\hEE, \hBF, \hBF, \hEE, \hBF, \hBE, \hEE, \hBE, \h80>>

\* C8 witness: a writing encode of FF FE 80 has returned.
C8_Witness ==
    /\ Returned /\ fr.mode = ENCODE /\ fr.dst
    /\ fr.src = <<\hFF, \hFE, \h80>>
    /\ Len(fr.out) = 9

\* C9: on a valid UTF-8 input without a codepoint of U+EF80..U+EFFF, xtf8_encode
\* and xtf8_decode under either policy return the length of the input, and a
\* writing call's output is the input itself.
C9_IdentityOnCleanText ==
    (Returned /\ is_utf8(fr.src) /\ ~HasPUASeq(fr.src))
    => /\ fr.ret = Len(fr.src)
       /\ fr.dst => fr.out = fr.src

\* C9 witness: a writing decode under ABORT of a multi-byte text has returned it.
C9_Witness ==
    /\ Returned /\ fr.mode = DECODE /\ fr.error = XTF8_ERR_ABORT /\ fr.dst
    /\ fr.src = <<\hF0, \h9F, \h98, \h80>>
    /\ fr.out = fr.src

\* C10 (as claimed): xtf8_decode under ABORT returns the sentinel exactly when
\* the input is not structurally valid UTF-8 (the scanner run over it from
\* ACCEPT does not end in ACCEPT).
C10_DecodeAbortIffInvalid ==
    (Returned /\ fr.mode = DECODE /\ fr.error = XTF8_ERR_ABORT)
    => (fr.ret = XTF8_ABORTED <=> ~is_utf8(fr.src))

\* C11 (as claimed): xtf8_decode under REPLACE ignores no invalid byte: each
\* step that meets a malformed run appends EF BF BD for it, and when the call
\* returns every input byte has been copied, decoded or replaced (no byte is
\* left pending, consumed without output).
C11_NoInvalidByteIgnored ==
    /\ (fr.mode = DECODE /\ fr.ev = "replaced" /\ fr.dst)
       => (Len(fr.out) >= 3 /\ LastN(fr.out, 3) = <<\hEF, \hBF, \hBD>>)
    /\ (Returned /\ fr.mode = DECODE /\ fr.error = XTF8_ERR_REPLACE)
       => (fr.pos = EndOf(fr) /\ (~is_utf8(fr.src) => fr.ret > 0))

\* C12 (as claimed): the length xtf8_decode returns, and the number of bytes a
\* writing call stores, never exceeds the length of the input, under either
\* policy.
C12_DecodeFitsInput ==
    fr.mode = DECODE
    => /\ Len(fr.out) <= Len(fr.src)
       /\ (Returned /\ fr.ret # XTF8_ABORTED) => fr.ret <= Len(fr.src)

\* C13: the byte-to-codepoint map of xtf8_encode and the codepoint-to-byte map
\* of xtf8_decode are mutually inverse between the bytes 0x80..0xFF and
\* U+EF80..U+EFFF (checked for the byte b of the input and for the codepoint at
\* the same offset into the range), every other byte gets a different 3-byte
\* sequence, and when the scanner rejects b as a first byte the encoding of <b>
\* is the 3-byte form of its codepoint and decoding that gives back <b>.
C13_MappingBijection ==
    Len(src) = 1 =>
        LET b == src[1]
            c == XTF8_PUA_START + (b - \h80)
        IN  /\ IsPUA(EncodeByte(b)) /\ DecodeCodepoint(EncodeByte(b)) = b
            /\ DecodeCodepoint(c) \in \h80..\hFF
            /\ EncodeByte(DecodeCodepoint(c)) = c
            /\ \A b2 \in \h80..\hFF :
                   b2 # b => Utf8Seq3(EncodeByte(b2)) # Utf8Seq3(EncodeByte(b))
            /\ Utf8State(UTF8_ACCEPT, b) = UTF8_REJECT
               => /\ Len(hist) >= 1 => hist[1].ok
                  /\ Len(hist) = 1 => data = Utf8Seq3(EncodeByte(b))
                  /\ Len(hist) = 2 => (hist[2].ok /\ data = src)

\* C13 witness: the byte FF has been encoded to EE BF BF and decoded back.
C13_Witness ==
    /\ src = <<\hFF>>
    /\ Len(hist) = 2 /\ hist[2].ok
    /\ data = <<\hFF>>
    /\ xtf8_encode(TRUE, src, XTF8_ERR_ABORT).out = <<\hEE, \hBF, \hBF>>

\* C14: decoding under ABORT what xtf8_encode produced under REPLACE never
\* returns the sentinel, and gives exactly the bytes that decoding it under
\* REPLACE gives.
C14_DecodeOfEncodedNeverAborts ==
    (Len(hist) = 2 /\ hist[1].err = XTF8_ERR_REPLACE /\ hist[2].err = XTF8_ERR_ABORT)
    => LET encoded == xtf8_encode(TRUE, src, XTF8_ERR_REPLACE).out
       IN  /\ hist[2].ok
           /\ xtf8_decode(FALSE, encoded, XTF8_ERR_ABORT).ret # XTF8_ABORTED
           /\ data = xtf8_decode(TRUE, encoded, XTF8_ERR_REPLACE).out

\* C14 witness: an input with invalid bytes and a collision was encoded under
\* REPLACE and the result decoded under ABORT.
C14_Witness ==
    /\ Len(hist) = 2 /\ hist[1].err = XTF8_ERR_REPLACE /\ hist[2].err = XTF8_ERR_ABORT
    /\ hist[2].ok
    /\ src = <<\hC3, \hA9, \hEE, \hBF, \hBF, \hFF>>
    /\ data = <<\hC3, \hA9, \hEF, \hBF, \hBD, \hFF>>

\* C15: every call terminates despite the one-byte rewind: no input position is
\* scanned more than twice, so the loop has run at most 2 * len iterations at
\* any step; every iteration that stays in the loop strictly decreases the
\* measure 2 * (end - s) + (1 if s_prev is not ACCEPT), which is never
\* negative; and a call ends by returning at the end of the input or by the
\* abort return.
C15_Terminates ==
    /\ [](/\ \A i \in 1..Len(fr.scans) : fr.scans[i] <= 2
          /\ Iterations(fr) <= 2 * Len(fr.src)
          /\ fr.pc = "loop" => (fr.s \in 0..EndOf(fr) /\ Measure(fr) >= 0)
          /\ Returned
             => \/ fr.ev = "end" /\ fr.s = EndOf(fr) /\ fr.ret # XTF8_ABORTED
                \/ fr.ev = "abort" /\ fr.ret = XTF8_ABORTED)
    /\ [][(fr.pc = "loop" /\ fr'.pc = "loop")
             => (Measure(fr') < Measure(fr) /\ Iterations(fr') = Iterations(fr) + 1)]_vars

\* C15 witness: a call has returned after rewinding, with a position scanned
\* twice.
C15_Witness ==
    /\ Returned /\ fr.ev = "end"
    /\ fr.src = <<\hF0, \h9F, \h98, \h41>>
    /\ fr.scans = <<1, 1, 1, 2>>

\* C16 (as claimed): json_unescape called on what json_escape wrote for a text X
\* succeeds and reproduces X: the sizing call returns the length of X and the
\* writing call stores exactly X, also when X ends in a control byte.
C16_JsonRoundTrip ==
    (JReturned /\ jf.fn = "unescape" /\ jf.again)
    => /\ jf.ret # JSON_ERR_UNESCAPE
       /\ jf.dst => jf.out = src
       /\ ~jf.dst => jf.ret = Len(src)

\* C17: the text a writing json_escape call stores holds no byte 0x00..0x1F,
\* and is the input with each control byte rendered as \n, \r, \t, \b, \f or
\* the six characters \u00XX (upper-case hex), each backslash and double quote
\* preceded by one added backslash, and every other byte copied.
C17_EscapeRendering ==
    (JReturned /\ jf.fn = "escape" /\ jf.dst)
    => /\ \A i \in 1..Len(jf.out) : jf.out[i] > \h1F
       /\ jf.out = JsonRenderAll(jf.src)
       /\ jf.ret = Len(jf.out)

\* C17 witness: a text with escapes of every kind has been escaped.
C17_Witness ==
    /\ JReturned /\ jf.fn = "escape" /\ jf.dst
    /\ jf.src = <<\h68, \h69, \h0A, \h00, \h22, \h5C, \h7F, \hFF>>
    /\ jf.out = <<\h68, \h69, \h5C, \h6E, \h5C, \h75, \h30, \h30, \h30, \h30,
                  \h5C, \h22, \h5C, \h5C, \h7F, \hFF>>

\* C18: json_unescape, called with dst NULL or with a buffer, returns
\* JSON_ERR_UNESCAPE whenever its input holds \u followed by fewer than four
\* characters, a character that is no hex digit among the four, four digits of
\* a value above 0x1F, a backslash before a character that starts no escape,
\* or a backslash at the very end.
C18_UnescapeErrors ==
    (JReturned /\ jf.fn = "unescape" /\ HasBadEscape(jf.src))
    => /\ jf.ret = JSON_ERR_UNESCAPE
       /\ jf.ev \in {"truncated", "xdigit", "range", "invalid", "incomplete"}

\* C18 witness: the writing call on A B has returned the error after
\* storing the A.
C18_Witness ==
    /\ JReturned /\ jf.fn = "unescape" /\ jf.dst
    /\ jf.src = <<\h41, \h5C, \h75, \h30, \h30, \h32, \h30, \h42>>
    /\ jf.ret = JSON_ERR_UNESCAPE /\ jf.ev = "range"
    /\ jf.out = <<\h41>>

\* C19 (as claimed): when an fwrite in write_file stores fewer bytes than
\* asked, write_file returns -1 at once (that fwrite is its last, and every
\* earlier one was complete), and the tool then does not exit with status 0.
C19_WriteFailureSurfaced ==
    /\ (drv.kind = "main" /\ drv.fwrites # <<>>)
       => /\ \A i \in 1..(Len(drv.fwrites) - 1) : drv.fwrites[i][1] = drv.fwrites[i][2]
          /\ LET last == drv.fwrites[Len(drv.fwrites)]
             IN  last[1] # last[2] <=> drv.wret = {-1}
    /\ (drv.kind = "main" /\ drv.pc = "exited" /\ drv.wret = {-1})
       => 0 \notin drv.status

\* C20: every driver runs the sizing pass first and the writing pass at most
\* once after it; no driver runs the writing pass after the sizing pass
\* returned the sentinel; and the destination of the writing pass has room for
\* at least the length the sizing pass returned, which the writing pass does
\* not exceed.
C20_TwoPassProtocol ==
    /\ Len(drv.passes) <= 2
    /\ drv.pc \in {"alloc", "write", "emit", "write_file", "exit", "done"}
       => Len(drv.passes) >= 1
    /\ Len(drv.passes) >= 1
       => (~drv.passes[1].dst /\ drv.passes[1].ret = drv.outlen)
    /\ drv.pc = "write"
       => (Len(drv.passes) = 1 /\ drv.outlen # XTF8_ABORTED /\ drv.cap >= drv.outlen)
    /\ Len(drv.passes) = 2
       => /\ drv.passes[2].dst
          /\ drv.passes[1].ret # XTF8_ABORTED
          /\ drv.cap >= drv.passes[1].ret
          /\ Len(drv.output) <= drv.cap
          /\ drv.passes[2].ret = drv.passes[1].ret
    /\ (Len(drv.passes) >= 1 /\ drv.outlen = XTF8_ABORTED /\ drv.pc # "alloc")
       => (drv.pc = "done" /\ \A r \in drv.result : ~r.ok)

\* C20 witness: the FFI driver encoded FF FE 80 into a buffer obtained for the
\* nine bytes the sizing pass returned, more than the shared buffer holds.
C20_Witness ==
    /\ drv.kind = "ffi" /\ drv.pc = "done"
    /\ src = <<\hFF, \hFE, \h80>>
    /\ drv.mode = ENCODE
    /\ Len(drv.passes) = 2
    /\ drv.outlen = 9 /\ drv.cap = 9 /\ drv.cap > buf_size
    /\ Len(drv.output) = 9

C22_EncodeReject ==
    [][(IterOf(ENCODE) /\ RejectsAtS)
         => LET j == fr.s
                n == IF fr.pos < j THEN j - fr.pos ELSE 1
                mapped == SubSeq(fr.src, fr.pos + 1, fr.pos + n)
            IN  /\ fr'.ev = "mapped" /\ fr'.pc = "loop"
                /\ fr.pos <= j
                /\ fr'.s = (IF fr.pos < j THEN j ELSE j + 1)
                /\ fr'.pos = fr'.s
                /\ fr'.s_cur = UTF8_ACCEPT /\ fr'.s_prev = UTF8_ACCEPT
                /\ fr'.sz = fr.sz + 3 * n
                /\ fr.dst => fr'.out = fr.out \o MappedForm(mapped)
                /\ ~fr.dst => fr'.out = fr.out]_vars

\* C22 witness: the three pending bytes F0 9F 98 were mapped when 41 was
\* rejected, and 41 is the next byte to scan.
C22_Witness ==
    /\ fr.mode = ENCODE /\ fr.dst /\ fr.pc = "loop" /\ fr.ev = "mapped"
    /\ fr.src = <<\hF0, \h9F, \h98, \h41>>
    /\ fr.s = 3 /\ fr.pos = 3
    /\ fr.out = <<\hEE, \hBF, \hB0, \hEE, \hBE, \h9F, \hEE, \hBE, \h98>>

\* C23: under REPLACE each REJECT the scanner reports in xtf8_decode emits
\* exactly one EF BF BD, which covers all pending bytes of the failed sequence;
\* if bytes were pending (pos < j) the rejected byte at j is not covered and is
\* scanned again from ACCEPT, otherwise the byte at j is the one replaced and
\* the scan goes on at j+1.
C23_DecodeReject ==
    [][(IterOf(DECODE) /\ RejectsAtS /\ fr.error = XTF8_ERR_REPLACE)
         => LET j == fr.s
            IN  /\ fr'.ev = "replaced" /\ fr'.pc = "loop"
                /\ fr.pos <= j
                /\ fr'.s = (IF fr.pos < j THEN j ELSE j + 1)
                /\ fr'.pos = fr'.s
                /\ fr'.s_cur = UTF8_ACCEPT /\ fr'.s_prev = UTF8_ACCEPT
                /\ fr'.sz = fr.sz + 3
                /\ fr.dst => fr'.out = fr.out \o <<\hEF, \hBF, \hBD>>
                /\ ~fr.dst => fr'.out = fr.out]_vars

\* C23 witness: the pending bytes F0 9F 98 were replaced by one EF BF BD when
\* 41 was rejected, and 41 is the next byte to scan.
C23_Witness ==
    /\ fr.mode = DECODE /\ fr.dst /\ fr.pc = "loop" /\ fr.ev = "replaced"
    /\ fr.src = <<\hF0, \h9F, \h98, \h41>>
    /\ fr.s = 3 /\ fr.pos = 3
    /\ fr.out = <<\hEF, \hBF, \hBD>>


\* C24: assert(*pos >= 0x80) in the mapping loop of xtf8_encode never fails:
\* no call records a failed assertion, and right after a REJECT was handled
\* the last byte mapped (the one before pos) is in 0x80..0xFF.
C24_MappedNonAscii ==
    /\ "nonascii" \notin fr.asserts
    /\ (fr.mode = ENCODE /\ fr.pc = "loop" /\ fr.ev = "mapped")
         => (fr.pos >= 1 /\ fr.src[fr.pos] >= \h80)

\* C24 witness: C3 was pending when the ASCII byte 41 was rejected; C3 alone
\* was mapped and 41 is left to be scanned again.
C24_Witness ==
    /\ fr.mode = ENCODE /\ fr.dst /\ fr.pc = "loop" /\ fr.ev = "mapped"
    /\ fr.src = <<\hC3, \h41>>
    /\ fr.s = 1 /\ fr.pos = 1
    /\ fr.out = <<\hEE, \hBF, \h83>>
    /\ fr.asserts = {}


\* a scanner run from ACCEPT whose bytes begin with an overlong form
\* (C0/C1 leads, E0 80..9F, F0 80..8F), a surrogate (ED A0..BF) or a value
\* above 0x10FFFF (F4 90.., F5..FF)
IllFormedStart(bytes) ==
    /\ bytes # <<>>
    /\ \/ bytes[1] \in {\hC0, \hC1}
       \/ bytes[1] \in \hF5..\hFF
       \/ /\ Len(bytes) >= 2
          /\ \/ bytes[1] = \hE0 /\ bytes[2] \in \h80..\h9F
             \/ bytes[1] = \hF0 /\ bytes[2] \in \h80..\h8F
             \/ bytes[1] = \hED /\ bytes[2] \in \hA0..\hBF
             \/ bytes[1] = \hF4 /\ bytes[2] \in \h90..\hFF

\* C25: a scanner started in ACCEPT that is back in ACCEPT after k bytes has
\* consumed 1..4 bytes, holds a Unicode scalar value in codep, and the bytes
\* are the shortest UTF-8 form of that value; a run is over (ACCEPT or
\* REJECT) after at most 4 bytes; and every run that begins with an overlong
\* form, a surrogate or a value above 0x10FFFF is in REJECT.
C25_ScannerAcceptance ==
    (sc.start = UTF8_ACCEPT /\ sc.bytes # <<>>)
      => /\ Len(sc.bytes) <= 4
         /\ Len(sc.bytes) = 4 => sc.state \in {UTF8_ACCEPT, UTF8_REJECT}
         /\ sc.state = UTF8_ACCEPT
              => /\ sc.codep \in 0..\h10FFFF
                 /\ sc.codep \notin \hD800..\hDFFF
                 /\ sc.bytes = Utf8Encode(sc.codep)
         /\ IllFormedStart(sc.bytes) => sc.state = UTF8_REJECT

\* C25 witness: the four bytes F4 8F BF BF were accepted as U+10FFFF
C25_Witness ==
    /\ sc.start = UTF8_ACCEPT
    /\ sc.bytes = <<\hF4, \h8F, \hBF, \hBF>>
    /\ sc.state = UTF8_ACCEPT
    /\ sc.codep = \h10FFFF

\* C25 witness of the rejected forms: the surrogate start ED A0 is in REJECT
C25_WitnessRejected ==
    /\ sc.start = UTF8_ACCEPT
    /\ sc.bytes = <<\hED, \hA0>>
    /\ sc.state = UTF8_REJECT

\* C26: a scanner in REJECT stays in REJECT whatever byte 0x00..0xFF
\* utf8_decode is given: every byte fed to a state word left in REJECT left
\* it in REJECT, and from every REJECT reached no byte leads out.
C26_RejectSticky ==
    /\ sc.start = UTF8_REJECT => sc.state = UTF8_REJECT
    /\ sc.state = UTF8_REJECT
         => \A byte \in AllBytes :
              Utf8State(sc.state, byte) = UTF8_REJECT

\* C26 witness: an ASCII byte and a lead byte were fed to a scanner in REJECT
C26_Witness ==
    /\ sc.start = UTF8_REJECT
    /\ sc.bytes = <<\h41, \hC2>>
    /\ sc.state = UTF8_REJECT


\* C27: in xtf8_encode and xtf8_decode the scanner state is ACCEPT when the
\* call starts and again right after a REJECT was handled, and it is never
\* REJECT where an iteration of the loop begins, so utf8_decode is never
\* called on a state in REJECT.
C27_ScannerLifecycle ==
    fr.pc = "loop"
      => /\ fr.s_cur # UTF8_REJECT
         /\ fr.ev = "none" => (fr.s = 0 /\ fr.s_cur = UTF8_ACCEPT)
         /\ fr.ev \in {"mapped", "replaced"}
              => (fr.s_cur = UTF8_ACCEPT /\ fr.s_prev = UTF8_ACCEPT)

\* C27 witness: FF was rejected and mapped, and the iteration for the byte
\* after it begins with the scanner in ACCEPT
C27_Witness ==
    /\ fr.mode = ENCODE /\ fr.pc = "loop" /\ fr.ev = "mapped"
    /\ fr.src = <<\hFF, \h41>>
    /\ fr.s = 1
    /\ fr.scans = <<1, 0>>
    /\ fr.s_cur = UTF8_ACCEPT


\* the bytes below 0x80 of a buffer, in order
AsciiOf(bytes) == SelectSeq(bytes, LAMBDA b : b < \h80)

\* C28: the ASCII bytes of the output of xtf8_encode (either policy, the call
\* not aborted) and of xtf8_decode under REPLACE are the ASCII bytes of the
\* input, the same bytes in the same order and number.
C28_AsciiPreserved ==
    (/\ fr.pc = "returned" /\ fr.dst
     /\ fr.ret # XTF8_ABORTED
     /\ fr.mode = ENCODE \/ fr.error = XTF8_ERR_REPLACE)
      => AsciiOf(fr.out) = AsciiOf(fr.src)

\* C28 witness: decoding C3 41 under REPLACE replaced C3 and kept 41
C28_Witness ==
    /\ fr.pc = "returned" /\ fr.dst
    /\ fr.mode = DECODE /\ fr.error = XTF8_ERR_REPLACE
    /\ fr.src = <<\hC3, \h41>>
    /\ fr.out = <<\hEF, \hBF, \hBD, \h41>>


\* the frame of the call of fr as it stood before the iterations for the
\* bytes from pos on, one iteration per byte
BeforeTail ==
    RunSteps(Entry(fr.mode, fr.dst, fr.src, fr.error),
             Iterations(fr) - (Len(fr.src) - fr.pos))

C30_RoundTripModuloCollisions ==
    (/\ Len(hist) = 2
     /\ hist[1].err = XTF8_ERR_REPLACE
     /\ hist[2].err = XTF8_ERR_REPLACE
     /\ xtf8_encode(FALSE, src, XTF8_ERR_REPLACE).s_cur = UTF8_ACCEPT)
    => LET encoded == xtf8_encode(TRUE, src, XTF8_ERR_REPLACE).out
       IN  /\ hist[2].ok
           /\ xtf8_decode(TRUE, encoded, XTF8_ERR_REPLACE).out = ReplaceCollisions(src)
           /\ data = ReplaceCollisions(src)

\* C30 witness: U+EF90 inside ASCII text came back as EF BF BD, the text
\* around it unchanged.
C30_Witness ==
    /\ Len(hist) = 2
    /\ hist[1].err = XTF8_ERR_REPLACE /\ hist[2].err = XTF8_ERR_REPLACE
    /\ src = <<\h41, \hEE, \hBE, \h90, \h42>>
    /\ data = <<\h41, \hEF, \hBF, \hBD, \h42>>


\* C31: a sizing call of xtf8_encode or xtf8_decode that does not return the
\* sentinel returns at most 3 * len, under either policy; all along a call
\* the size counted is at most three times the bytes already accounted for.
C31_SizeBound ==
    /\ fr.pc \in {"loop", "returned"} => fr.sz <= 3 * fr.pos
    /\ (fr.pc = "returned" /\ ~fr.dst /\ fr.ret # XTF8_ABORTED)
         => fr.ret <= 3 * Len(fr.src)

\* C31 witness: the sizing call of xtf8_encode on three invalid bytes returned
\* 9, the bound itself
C31_Witness ==
    /\ fr.pc = "returned" /\ ~fr.dst
    /\ fr.mode = ENCODE
    /\ fr.src = <<\hFF, \hFE, \h80>>
    /\ fr.ret = 9

\* C31 witness for xtf8_decode: one replaced byte gave the size 3
C31_WitnessDecode ==
    /\ fr.pc = "returned" /\ ~fr.dst
    /\ fr.mode = DECODE /\ fr.error = XTF8_ERR_REPLACE
    /\ fr.src = <<\h80>>
    /\ fr.ret = 3


\* the bytes from pos up to s - 1: scanned, not yet copied, mapped or replaced
Pending(f) == SubSeq(f.src, f.pos + 1, f.s)

\* C32: where an iteration of the loop of xtf8_encode or xtf8_decode begins,
\* src <= pos <= s < end and s - pos <= 3; pos = s exactly when the scanner
\* is in ACCEPT; and the bytes from pos to s - 1 are non-ASCII bytes which,
\* scanned from ACCEPT, give the present state of the scanner.
C32_PendingRegion ==
    (fr.pc = "loop" /\ fr.s < EndOf(fr))
      => /\ 0 <= fr.pos /\ fr.pos <= fr.s
         /\ fr.s - fr.pos <= 3
         /\ fr.pos = fr.s <=> fr.s_cur = UTF8_ACCEPT
         /\ \A i \in 1..Len(Pending(fr)) : Pending(fr)[i] >= \h80
         /\ ScanState(UTF8_ACCEPT, Pending(fr)) = fr.s_cur
         /\ \A i \in 1..Len(Pending(fr)) : fr.scans[fr.pos + i] >= 1

\* C32 witness: three bytes F0 9F 98 of a four-byte sequence are pending
\* where the iteration for the fourth begins
C32_Witness ==
    /\ fr.pc = "loop" /\ fr.mode = ENCODE
    /\ fr.src = <<\hF0, \h9F, \h98, \h80>>
    /\ fr.s = 3 /\ fr.pos = 0
    /\ fr.s_cur \notin {UTF8_ACCEPT, UTF8_REJECT}
    /\ fr.s < EndOf(fr)


\* C33: json_escape with dst = NULL returns the number of bytes json_escape
\* writes through a destination, for every input; json_unescape fails with
\* dst = NULL exactly when it fails with a destination, and where it does
\* not fail its sizing result is the number of bytes it writes; so the
\* buffer of jlen bytes main allocates is filled exactly.
C33_JsonSizingMatchesWriting ==
    jf.pc = "returned"
      => LET sizing == JRunCall(JEntry(jf.fn, FALSE, jf.src, FALSE))
             writing == JRunCall(JEntry(jf.fn, TRUE, jf.src, FALSE))
         IN  /\ jf.ret = (IF jf.dst THEN writing.ret ELSE sizing.ret)
             /\ jf.fn = "escape" => sizing.ret # JSON_ERR_UNESCAPE
             /\ sizing.ret = JSON_ERR_UNESCAPE <=> writing.ret = JSON_ERR_UNESCAPE
             /\ sizing.ret # JSON_ERR_UNESCAPE
                  => /\ sizing.ret = Len(writing.out)
                     /\ writing.ret = Len(writing.out)
             /\ jf.sized => (jf.ret = jf.jlen /\ Len(jf.out) = jf.jlen)

\* C33 witness: the sizing call of json_escape on the byte 01 returned 6 and
\* the writing call stored the six bytes of \u0001
C33_Witness ==
    /\ jf.pc = "returned" /\ jf.fn = "escape" /\ jf.sized
    /\ jf.src = <<\h01>>
    /\ jf.jlen = 6
    /\ jf.out = <<\h5C, \h75, \h30, \h30, \h30, \h31>>

\* C33 witness for json_unescape: A\u001FB was sized as 3 and written as 41 1F 42
C33_WitnessUnescape ==
    /\ jf.pc = "returned" /\ jf.fn = "unescape" /\ jf.sized
    /\ jf.src = <<\h41, \h5C, \h75, \h30, \h30, \h31, \h46, \h42>>
    /\ jf.jlen = 3
    /\ jf.out = <<\h41, \h1F, \h42>>

\* C33 witness of a failure: the writing call of json_unescape on \u00 returned
\* JSON_ERR_UNESCAPE as the sizing call does
C33_WitnessFails ==
    /\ jf.pc = "returned" /\ jf.fn = "unescape" /\ jf.dst
    /\ jf.src = <<\h5C, \h75, \h30, \h30>>
    /\ jf.ret = JSON_ERR_UNESCAPE


\* the rows of the transition table: ACCEPT, REJECT and the seven states in
\* which more bytes are expected
ScannerStates == {0, 12, 24, 36, 48, 60, 72, 84, 96}

\* C34: the state of a scanner started in ACCEPT (or left in REJECT) is one
\* of the nine values 0, 12, .., 96 after every byte; the class of every
\* byte 0x00..0xFF is in 0..11; so the index 256 + state + class of the
\* transition lookup is inside the table of 364 entries, and the entry read
\* is again one of the nine states.
C34_TableBounds ==
    /\ Len(utf8d) = 364
    /\ sc.state \in ScannerStates
    /\ \A byte \in AllBytes : ByteClass(byte) \in 0..11
    /\ \A class \in 0..11 :
         /\ 256 + sc.state + class \in 256..(Len(utf8d) - 1)
         /\ Utf8dAt(256 + sc.state + class) \in ScannerStates

\* C34 witness: after F4 8F BF the scanner is in state 24; the lookups made
\* on the way used the rows 0, 96 and 36, the second one at index 353
C34_Witness ==
    /\ sc.start = UTF8_ACCEPT
    /\ sc.bytes = <<\hF4, \h8F, \hBF>>
    /\ sc.state = 24
    /\ Utf8State(UTF8_ACCEPT, \hF4) = 96
    /\ Utf8State(96, \h8F) = 36
    /\ 256 + 96 + ByteClass(\h8F) = 353

====
